---------------------------- MODULE Spec2Model ----------------------------
(***************************************************************************)
(* OptaCore-Struct graph engine (crates/optacore_struct): the node/edge    *)
(* model with its cached adjacency matrix (model.rs), the force-directed   *)
(* layout optimizer (optimizer.rs) and the anti-pattern detector           *)
(* (anti_patterns.rs), the C4 DSL parser (parser.rs), the DOT exporter     *)
(* (viz.rs) and the configuration handling of the JNI bridge               *)
(* (crates/optacore_jni).                                                  *)
(*                                                                         *)
(* Conventions.  Option<T> is a sequence of length 0 (None) or 1 (Some).   *)
(* Vec indices are 1-based here (index i here is index i-1 in the code).   *)
(* f32 lengths are integers in units of 1/10, squared lengths and areas    *)
(* in units of 1/100, so the softening constant 0.01 is 1; divisions       *)
(* truncate.  Edge weights are integers.  A severity (a quotient of two    *)
(* usize values) is kept as the pair num/den.                              *)
(***************************************************************************)
EXTENDS Integers, Sequences, FiniteSets, TLC

VARIABLES
    nodes,             \* OptaModel.nodes: Vec<OptaNode>, records [id, position]
    edges,             \* OptaModel.edges: Vec<OptaEdge>, records [from, to, weight]
    adjacency_matrix,  \* OptaModel.adjacency_matrix: Option<Tensor<B, 2>>
    last_mutator,      \* history: the most recent of new/add_node/add_edge/build_adjacency_matrix
    pc,                \* "idle", or "iterating" while optimize_layout is inside its loop
    optimizer,         \* the OptaOptimizer (self) of the optimize_layout call in progress
    positions,         \* optimize_layout's local `positions` tensor: Seq of <<x, y>>
    iteration,         \* optimize_layout's loop variable `iteration`
    temperature,       \* optimize_layout's local `temperature` of the loop pass just
                       \* made: Option of num/den
    dfs,               \* the locals of a detect_anti_patterns call that is followed
                       \* step by step: color and parent maps, the index of the root
                       \* loop, the dfs_visit frames, reconstruct_cycle's locals, the
                       \* patterns pushed so far; `entered` counts dfs_visit entries
    result             \* the most recent call that returns a value: its name, its
                       \* argument (the text of parse_c4_dsl, the configuration of
                       \* detect_anti_patterns and to_dot, the payload of the JNI
                       \* entry points) and its outcome

vars ==
    <<nodes, edges, adjacency_matrix, last_mutator, pc, optimizer, positions, iteration,
      temperature, dfs, result>>

-----------------------------------------------------------------------------
(* Bounds of the model *)

MaxNodes == 2

MaxEdges == 2

MaxWeight == 2

MaxIterations == 2

MaxSide == 2

MaxLayoutEdges == 1

MaxDetectNodes == 3

MaxDetectEdges == 3

MaxThreshold == 2

MaxLines == 3

MaxDotThreshold == 1

MaxWorkflowLines == 2

MaxJsonThreshold == 2

\* node ids used by the graph-model and layout specifications
NodeIds == {"a", "b"}

\* ids an edge of the graph-model specification can name: "x" never names a node
EdgeIds == NodeIds \cup {"x"}

\* node ids used by the detection specification
DetectIds == {"a", "b", "c"}

\* edge weights (OptaEdge::with_weight takes any f32; 0 is a non-positive weight)
Weights == 0..MaxWeight

\* layout areas given to with_area: 0 and MaxSide squared (in units of 1/100)
Areas == {0, MaxSide * MaxSide}

\* learning rates num/den given to OptaOptimizer::new: 0.1 and 1.0
LearningRates == {<<1, 10>>, <<1, 1>>}

-----------------------------------------------------------------------------
(* Option<T> and small helpers *)

None == <<>>

Some(v) == <<v>>

IsSome(o) == o # <<>>

Unwrap(o) == o[1]

Max2(x, y) == IF x >= y THEN x ELSE y

RECURSIVE SetToSeq(_)
\* the elements of a finite set in one fixed order (a HashMap's iteration
\* order is unspecified; nothing below depends on it)
SetToSeq(S) ==
    IF S = {} THEN <<>>
    ELSE LET x == CHOOSE x \in S : TRUE
         IN  <<x>> \o SetToSeq(S \ {x})

Reverse(q) == [i \in 1..Len(q) |-> q[Len(q) + 1 - i]]

SetMax(S) == CHOOSE x \in S : \A y \in S : y <= x

Abs(x) == IF x < 0 THEN -x ELSE x

\* f32 division, rounded toward zero
Trunc(n, d) ==
    IF (n >= 0) = (d > 0) THEN Abs(n) \div Abs(d) ELSE -(Abs(n) \div Abs(d))

RECURSIVE IsqrtFrom(_, _)
IsqrtFrom(n, r) == IF (r + 1) * (r + 1) > n THEN r ELSE IsqrtFrom(n, r + 1)

\* f32::sqrt of a non-negative value, rounded down
Sqrt(n) == IsqrtFrom(n, 0)

-----------------------------------------------------------------------------
(* model.rs: OptaNode, OptaEdge, OptaModel *)

OptaNode_new(id) == [id |-> id, position |-> None]

OptaEdge_new(from, to, weight) == [from |-> from, to |-> to, weight |-> weight]

node_count == Len(nodes)

edge_count == Len(edges)

\* the HashMap built by .enumerate().map(..).collect(): a later node with the
\* same id replaces the earlier entry
node_index_map(ns) ==
    [id \in {ns[i].id : i \in DOMAIN ns} |-> SetMax({i \in DOMAIN ns : ns[i].id = id})]

ZeroMatrix(n) == [i \in 1..n |-> [j \in 1..n |-> 0]]

RECURSIVE FillAdjacencyAccumulate(_, _, _, _)
\* mutant of FillAdjacency: a later edge adds its weight to the cell
FillAdjacencyAccumulate(data, index, es, e) ==
    IF e > Len(es) THEN data
    ELSE LET edge == es[e]
         IN  IF edge.from \in DOMAIN index /\ edge.to \in DOMAIN index
             THEN FillAdjacencyAccumulate(
                      [data EXCEPT ![index[edge.from]][index[edge.to]] = @ + edge.weight],
                      index, es, e + 1)
             ELSE FillAdjacencyAccumulate(data, index, es, e + 1)

RECURSIVE FillAdjacency(_, _, _, _)
\* the `for edge in &self.edges` loop from edge number e on
FillAdjacency(data, index, es, e) ==
    IF e > Len(es) THEN data
    ELSE LET edge == es[e]
         IN  IF edge.from \in DOMAIN index /\ edge.to \in DOMAIN index
             THEN FillAdjacency(
                      [data EXCEPT ![index[edge.from]][index[edge.to]] = edge.weight],
                      index, es, e + 1)
             ELSE FillAdjacency(data, index, es, e + 1)

\* the value build_adjacency_matrix stores in self.adjacency_matrix
BuiltMatrix(ns, es) ==
    IF Len(ns) = 0 THEN None
    ELSE Some(FillAdjacency(ZeroMatrix(Len(ns)), node_index_map(ns), es, 1))

find_node(id) ==
    IF \E i \in DOMAIN nodes : nodes[i].id = id
    THEN Some(nodes[CHOOSE i \in DOMAIN nodes :
                  nodes[i].id = id /\ \A j \in 1..(i - 1) : nodes[j].id # id])
    ELSE None

\* `result` after a call that returns nothing (new, add_node, add_edge,
\* build_adjacency_matrix)
NoResult ==
    [call |-> "", input |-> <<>>, config |-> None, status |-> "", error |-> "",
     patterns |-> <<>>, dot |-> <<>>]

\* Ok(()) of `call`
Unit(call) == [NoResult EXCEPT !.call = call, !.status = "ok"]

\* Err(error) of `call`, or its panic
Failure(call, status, error) == [NoResult EXCEPT !.call = call, !.status = status, !.error = error]

OptimizerIdle == <<pc, optimizer, positions, iteration, temperature>>

\* mutant of Invalidated: the cached matrix is kept
InvalidatedKept(m) == m

\* the value add_node / add_edge store in self.adjacency_matrix
Invalidated(m) == None

add_node(node) ==
    /\ pc = "idle"
    /\ nodes' = Append(nodes, node)
    /\ adjacency_matrix' = Invalidated(adjacency_matrix)
    /\ last_mutator' = "add_node"
    /\ result' = NoResult
    /\ UNCHANGED <<edges, OptimizerIdle, dfs>>

add_edge(edge) ==
    /\ pc = "idle"
    /\ edges' = Append(edges, edge)
    /\ adjacency_matrix' = Invalidated(adjacency_matrix)
    /\ last_mutator' = "add_edge"
    /\ result' = NoResult
    /\ UNCHANGED <<nodes, OptimizerIdle, dfs>>

build_adjacency_matrix ==
    /\ pc = "idle"
    /\ adjacency_matrix' = BuiltMatrix(nodes, edges)
    /\ last_mutator' = "build_adjacency_matrix"
    /\ result' = NoResult
    /\ UNCHANGED <<nodes, edges, OptimizerIdle, dfs>>

-----------------------------------------------------------------------------
(* optimizer.rs: OptaOptimizer *)

\* the softening constant 0.01, in units of 1/100
Softening == 1

\* area 1000.0 and k 50.0 in the units of the model
OptaOptimizer_new(iterations, learning_rate) ==
    [iterations |-> iterations, learning_rate |-> learning_rate, area |-> 100000, k |-> 500]

\* k = (area / iterations).sqrt(); with iterations = 0 the quotient is not
\* finite, and k is never read since the loop body does not run
with_area(self, area) ==
    [self EXCEPT !.area = area,
                 !.k = IF self.iterations = 0 THEN "inf"
                       ELSE Sqrt(Trunc(area, self.iterations))]

\* the values rng.random_range(0.0..self.area.sqrt()) can return
RandomRange(self) == 0..(Sqrt(self.area) - 1)

\* the tensors initialize_positions can return; random_range panics on an
\* empty range, which is the case of no value here
initialize_positions(self, count) == [1..count -> RandomRange(self) \X RandomRange(self)]

\* adjacency_vec[i * node_count + j] of the flattened matrix
AdjacencyAt(adjacency, count, i, j) ==
    LET flat == [n \in 1..(Len(adjacency) * Len(adjacency)) |->
                    adjacency[((n - 1) \div Len(adjacency)) + 1][((n - 1) % Len(adjacency)) + 1]]
    IN  flat[(i - 1) * count + j]

\* mutant of PairForce: the matrix is read as if it were symmetric
PairForce_symmetric(self, pos, adjacency, i, j) ==
    LET dx == pos[i][1] - pos[j][1]
        dy == pos[i][2] - pos[j][2]
        distance_sq == dx * dx + dy * dy + Softening
        distance == Sqrt(distance_sq)
        repulsive(d) == Trunc(10 * d * self.k * self.k, distance * distance_sq)
        edge_weight == Max2(AdjacencyAt(adjacency, Len(pos), i, j),
                            AdjacencyAt(adjacency, Len(pos), j, i))
        attractive(d) ==
            IF edge_weight > 0
            THEN Trunc(d * distance * distance * edge_weight, distance * self.k)
            ELSE 0
    IN  <<repulsive(dx) - attractive(dx), repulsive(dy) - attractive(dy)>>

\* what the pair (i, j), i # j, adds to force_values[i]: <<x, y>>
PairForce(self, pos, adjacency, i, j) ==
    LET dx == pos[i][1] - pos[j][1]
        dy == pos[i][2] - pos[j][2]
        distance_sq == dx * dx + dy * dy + Softening
        distance == Sqrt(distance_sq)
        \* (d / distance) * (k * k) / distance_sq, lengths in units of 1/10
        repulsive(d) == Trunc(10 * d * self.k * self.k, distance * distance_sq)
        edge_weight == AdjacencyAt(adjacency, Len(pos), i, j)
        \* (d / distance) * (distance * distance) / k * edge_weight
        attractive(d) ==
            IF edge_weight > 0
            THEN Trunc(d * distance * distance * edge_weight, distance * self.k)
            ELSE 0
    IN  <<repulsive(dx) - attractive(dx), repulsive(dy) - attractive(dy)>>

RECURSIVE SumForces(_, _, _, _, _)
\* the inner `for j in 0..node_count` loop from j on
SumForces(self, pos, adjacency, i, j) ==
    IF j > Len(pos) THEN <<0, 0>>
    ELSE LET rest == SumForces(self, pos, adjacency, i, j + 1)
         IN  IF i = j THEN rest
             ELSE LET f == PairForce(self, pos, adjacency, i, j)
                  IN  <<f[1] + rest[1], f[2] + rest[2]>>

compute_forces(self, pos, adjacency) ==
    [i \in 1..Len(pos) |-> SumForces(self, pos, adjacency, i, 1)]

\* mutant of Temperature: the cooling is counted from the end of the pass
Temperature_after_pass(self, t) ==
    <<self.learning_rate[1] * (self.iterations - (t + 1)),
      self.learning_rate[2] * self.iterations>>

\* temperature = learning_rate * (1.0 - iteration / iterations), as num/den
Temperature(self, t) ==
    <<self.learning_rate[1] * (self.iterations - t), self.learning_rate[2] * self.iterations>>

Clamp(v, lo, hi) == IF v < lo THEN lo ELSE IF v > hi THEN hi ELSE v

\* mutant of clamp_positions: no clamp
clamp_positions_missing(self, pos) == pos

clamp_positions(self, pos) ==
    LET max_val == Sqrt(self.area)
    IN  [i \in DOMAIN pos |-> <<Clamp(pos[i][1], 0, max_val), Clamp(pos[i][2], 0, max_val)>>]

\* positions + displacement * temperature, tau being the temperature
Displace(pos, displacement, tau) ==
    [i \in DOMAIN pos |->
        <<pos[i][1] + Trunc(displacement[i][1] * tau[1], tau[2]),
          pos[i][2] + Trunc(displacement[i][2] * tau[1], tau[2])>>]

\* mutant of apply_positions_to_model: the nodes come out in reverse order
apply_positions_to_model_reversed(ns, pos) ==
    [idx \in DOMAIN ns |->
        [ns[Len(ns) + 1 - idx] EXCEPT !.position = Some(pos[Len(ns) + 1 - idx])]]

\* mutant of apply_positions_to_model: the last node is left out
apply_positions_to_model_but_last(ns, pos) ==
    [idx \in DOMAIN ns |->
        IF idx < Len(ns) \/ Len(ns) = 1 THEN [ns[idx] EXCEPT !.position = Some(pos[idx])]
        ELSE ns[idx]]

apply_positions_to_model(ns, pos) ==
    [idx \in DOMAIN ns |-> [ns[idx] EXCEPT !.position = Some(pos[idx])]]

ErrEmptyModel == "Cannot optimize empty model"

ErrMatrixNotBuilt == "Adjacency matrix not built. Call build_adjacency_matrix() first"

\* `call` has not returned yet
Running(call) == [NoResult EXCEPT !.call = call, !.status = "running"]

\* the outcome of the two precondition checks and of initialize_positions:
\* "empty", "no_matrix", "panic" (random_range on an empty range) or "run"
Precheck(self) ==
    IF node_count = 0 THEN "empty"
    ELSE IF ~IsSome(adjacency_matrix) THEN "no_matrix"
    ELSE IF initialize_positions(self, node_count) = {} THEN "panic"
    ELSE "run"

\* optimize_layout up to the first loop test
optimize_layout_begin(self) ==
    /\ pc = "idle"
    /\ \/ /\ Precheck(self) = "empty"
          /\ result' = Failure("optimize_layout", "err", ErrEmptyModel)
          /\ UNCHANGED OptimizerIdle
       \/ /\ Precheck(self) = "no_matrix"
          /\ result' = Failure("optimize_layout", "err", ErrMatrixNotBuilt)
          /\ UNCHANGED OptimizerIdle
       \/ /\ Precheck(self) = "panic"
          /\ result' = Failure("optimize_layout", "panic", "cannot sample empty range")
          /\ UNCHANGED OptimizerIdle
       \/ /\ Precheck(self) = "run"
          /\ \E p \in initialize_positions(self, node_count) : positions' = p
          /\ pc' = "iterating"
          /\ optimizer' = Some(self)
          /\ iteration' = 0
          /\ temperature' = None
          /\ result' = Running("optimize_layout")
    /\ UNCHANGED <<nodes, edges, adjacency_matrix, last_mutator, dfs>>

\* one pass of the `for iteration in 0..self.iterations` body
optimize_layout_iterate ==
    /\ pc = "iterating"
    /\ iteration < Unwrap(optimizer).iterations
    /\ LET self == Unwrap(optimizer)
           displacement == compute_forces(self, positions, Unwrap(adjacency_matrix))
       IN  /\ temperature' = Some(Temperature(self, iteration))
           /\ positions' =
                  clamp_positions(self, Displace(positions, displacement, Unwrap(temperature')))
    /\ iteration' = iteration + 1
    /\ UNCHANGED <<nodes, edges, adjacency_matrix, last_mutator, pc, optimizer, result, dfs>>

\* the loop exit, apply_positions_to_model and Ok(())
optimize_layout_end ==
    /\ pc = "iterating"
    /\ iteration = Unwrap(optimizer).iterations
    /\ nodes' = apply_positions_to_model(nodes, positions)
    /\ result' = Unit("optimize_layout")
    /\ pc' = "idle"
    /\ optimizer' = None
    /\ positions' = <<>>
    /\ iteration' = 0
    /\ temperature' = None
    /\ UNCHANGED <<edges, adjacency_matrix, last_mutator, dfs>>

\* the optimizers a caller builds: OptaOptimizer::new(n, lr).with_area(a)
Optimizers ==
    {with_area(OptaOptimizer_new(n, lr), a) : n \in 0..MaxIterations, lr \in LearningRates, a \in Areas}

-----------------------------------------------------------------------------
(* anti_patterns.rs *)

\* AntiPattern values; the fields a variant does not have keep these defaults
NoPattern ==
    [kind |-> "", nodes |-> <<>>, node_id |-> "", in_degree |-> 0, out_degree |-> 0,
     severity |-> <<0, 1>>]

Cycle(cycle) == [NoPattern EXCEPT !.kind = "Cycle", !.nodes = cycle]

Bottleneck(node_id, in_degree, severity) ==
    [NoPattern EXCEPT !.kind = "Bottleneck", !.node_id = node_id,
                      !.in_degree = in_degree, !.severity = severity]

OverCoupling(node_id, out_degree, severity) ==
    [NoPattern EXCEPT !.kind = "OverCoupling", !.node_id = node_id,
                      !.out_degree = out_degree, !.severity = severity]

IsolatedComponent(node_id) == [NoPattern EXCEPT !.kind = "IsolatedComponent", !.node_id = node_id]

AntiPatternConfig(bottleneck_threshold, over_coupling_threshold, detect_isolated) ==
    [bottleneck_threshold |-> bottleneck_threshold,
     over_coupling_threshold |-> over_coupling_threshold,
     detect_isolated |-> detect_isolated]

RECURSIVE PushEdges(_, _, _)
\* the `for edge in &model.edges` loop of build_adjacency_map from edge e on
PushEdges(adjacency, es, e) ==
    IF e > Len(es) THEN adjacency
    ELSE LET from == es[e].from
             to == es[e].to
         IN  IF from \in DOMAIN adjacency
             THEN PushEdges([adjacency EXCEPT ![from] = Append(@, to)], es, e + 1)
             ELSE PushEdges(adjacency @@ (from :> <<to>>), es, e + 1)

\* mutant of build_adjacency_map: the cached matrix is used when there is one
build_adjacency_map_cached(ns, es) ==
    IF IsSome(adjacency_matrix) /\ Len(Unwrap(adjacency_matrix)) = Len(ns)
    THEN [id \in {ns[i].id : i \in DOMAIN ns} |->
             LET i == CHOOSE i \in DOMAIN ns : ns[i].id = id
                 targets == SelectSeq([j \in DOMAIN ns |-> j],
                                      LAMBDA j : Unwrap(adjacency_matrix)[i][j] > 0)
             IN  [n \in DOMAIN targets |-> ns[targets[n]].id]]
    ELSE PushEdges([id \in {ns[i].id : i \in DOMAIN ns} |-> <<>>], es, 1)

build_adjacency_map(ns, es) ==
    PushEdges([id \in {ns[i].id : i \in DOMAIN ns} |-> <<>>], es, 1)

RECURSIVE WalkParents(_, _, _, _)
\* the while loop of reconstruct_cycle
WalkParents(cycle, current, cycle_start, parent) ==
    IF current = cycle_start THEN cycle
    ELSE LET pushed == Append(cycle, current)
         IN  IF current \in DOMAIN parent /\ IsSome(parent[current])
             THEN WalkParents(pushed, Unwrap(parent[current]), cycle_start, parent)
             ELSE pushed

reconstruct_cycle(cycle_start, cycle_end, parent) ==
    Reverse(WalkParents(<<cycle_start>>, cycle_end, cycle_start, parent))

DfsState(cycle, color, parent) == [cycle |-> cycle, color |-> color, parent |-> parent]

RECURSIVE dfs_visit(_, _, _, _)
RECURSIVE VisitNeighbors(_, _, _, _, _, _)

\* the `for neighbor in neighbors` loop of dfs_visit from neighbor number n on
VisitNeighbors(node_id, neighbors, n, adjacency, color, parent) ==
    IF n > Len(neighbors) THEN DfsState(None, color, parent)
    ELSE LET neighbor == neighbors[n]
         IN  IF neighbor \in DOMAIN color /\ color[neighbor] = "White"
             THEN LET sub == dfs_visit(neighbor, adjacency, color,
                                       [parent EXCEPT ![neighbor] = Some(node_id)])
                  IN  IF IsSome(sub.cycle) THEN sub
                      ELSE VisitNeighbors(node_id, neighbors, n + 1, adjacency,
                                          sub.color, sub.parent)
             ELSE IF neighbor \in DOMAIN color /\ color[neighbor] = "Gray"
             THEN DfsState(Some(reconstruct_cycle(neighbor, node_id, parent)), color, parent)
             ELSE VisitNeighbors(node_id, neighbors, n + 1, adjacency, color, parent)

\* mutant of dfs_visit: the node is marked done before its neighbors are visited
dfs_visit_black_first(node_id, adjacency, color, parent) ==
    LET black == [color EXCEPT ![node_id] = "Black"]
        visited == IF node_id \in DOMAIN adjacency
                   THEN VisitNeighbors(node_id, adjacency[node_id], 1, adjacency, black, parent)
                   ELSE DfsState(None, black, parent)
    IN  visited

\* returns the Option<Vec<String>> with the color and parent maps as left
dfs_visit(node_id, adjacency, color, parent) ==
    LET gray == [color EXCEPT ![node_id] = "Gray"]
        visited == IF node_id \in DOMAIN adjacency
                   THEN VisitNeighbors(node_id, adjacency[node_id], 1, adjacency, gray, parent)
                   ELSE DfsState(None, gray, parent)
    IN  IF IsSome(visited.cycle) THEN visited
        ELSE DfsState(None, [visited.color EXCEPT ![node_id] = "Black"], visited.parent)

RECURSIVE VisitRootsUnchecked(_, _, _, _, _, _)
\* mutant of VisitRoots: every node is taken as a root, whatever its color
VisitRootsUnchecked(ns, n, adjacency, color, parent, patterns) ==
    IF n > Len(ns) THEN patterns
    ELSE LET visited == dfs_visit(ns[n].id, adjacency, color, parent)
         IN  VisitRootsUnchecked(ns, n + 1, adjacency, visited.color, visited.parent,
                                 IF IsSome(visited.cycle)
                                 THEN Append(patterns, Cycle(Unwrap(visited.cycle)))
                                 ELSE patterns)

RECURSIVE VisitRoots(_, _, _, _, _, _)
\* the second `for node in &model.nodes` loop of detect_cycles from node n on
VisitRoots(ns, n, adjacency, color, parent, patterns) ==
    IF n > Len(ns) THEN patterns
    ELSE IF color[ns[n].id] = "White"
    THEN LET visited == dfs_visit(ns[n].id, adjacency, color, parent)
         IN  VisitRoots(ns, n + 1, adjacency, visited.color, visited.parent,
                        IF IsSome(visited.cycle)
                        THEN Append(patterns, Cycle(Unwrap(visited.cycle)))
                        ELSE patterns)
    ELSE VisitRoots(ns, n + 1, adjacency, color, parent, patterns)

detect_cycles(ns, adjacency) ==
    LET ids == {ns[i].id : i \in DOMAIN ns}
    IN  VisitRoots(ns, 1, adjacency, [id \in ids |-> "White"], [id \in ids |-> None], <<>>)

\* the places (key, position) of the adjacency lists
Places(adjacency) ==
    UNION {{<<key, n>> : n \in DOMAIN adjacency[key]} : key \in DOMAIN adjacency}

\* the in_degree map of detect_bottlenecks
InDegreeMap(adjacency) ==
    [id \in DOMAIN adjacency \cup {adjacency[p[1]][p[2]] : p \in Places(adjacency)} |->
        Cardinality({p \in Places(adjacency) : adjacency[p[1]][p[2]] = id})]

\* in_degree / max(threshold, 1) as num/den
Severity(degree, threshold) == <<degree, Max2(threshold, 1)>>

\* mutant of detect_bottlenecks: degree > threshold
detect_bottlenecks_strict(adjacency, threshold) ==
    LET in_degree == InDegreeMap(adjacency)
        kept == SetToSeq({id \in DOMAIN in_degree : in_degree[id] > threshold})
    IN  [n \in DOMAIN kept |->
            Bottleneck(kept[n], in_degree[kept[n]], Severity(in_degree[kept[n]], threshold))]

detect_bottlenecks(adjacency, threshold) ==
    LET in_degree == InDegreeMap(adjacency)
        kept == SetToSeq({id \in DOMAIN in_degree : in_degree[id] >= threshold})
    IN  [n \in DOMAIN kept |->
            Bottleneck(kept[n], in_degree[kept[n]], Severity(in_degree[kept[n]], threshold))]

\* mutant of detect_over_coupling: neighbors.len() > threshold
detect_over_coupling_strict(adjacency, threshold) ==
    LET kept == SetToSeq({id \in DOMAIN adjacency : Len(adjacency[id]) > threshold})
    IN  [n \in DOMAIN kept |->
            OverCoupling(kept[n], Len(adjacency[kept[n]]),
                         Severity(Len(adjacency[kept[n]]), threshold))]

detect_over_coupling(adjacency, threshold) ==
    LET kept == SetToSeq({id \in DOMAIN adjacency : Len(adjacency[id]) >= threshold})
    IN  [n \in DOMAIN kept |->
            OverCoupling(kept[n], Len(adjacency[kept[n]]),
                         Severity(Len(adjacency[kept[n]]), threshold))]

RECURSIVE FilterIsolated(_, _, _, _)
\* the filter/map over model.nodes of detect_isolated_components from node n on
FilterIsolated(ns, n, adjacency, has_incoming) ==
    IF n > Len(ns) THEN <<>>
    ELSE LET id == ns[n].id
             has_outgoing == IF id \in DOMAIN adjacency THEN adjacency[id] # <<>> ELSE FALSE
             has_incoming_edge == id \in has_incoming
             rest == FilterIsolated(ns, n + 1, adjacency, has_incoming)
         IN  IF ~has_outgoing /\ ~has_incoming_edge
             THEN <<IsolatedComponent(id)>> \o rest
             ELSE rest

\* mutant of detect_isolated_components: incoming edges are not looked at
detect_isolated_components_outgoing_only(ns, adjacency) ==
    FilterIsolated(ns, 1, adjacency, {})

detect_isolated_components(ns, adjacency) ==
    FilterIsolated(ns, 1, adjacency, {adjacency[p[1]][p[2]] : p \in Places(adjacency)})

\* mutant of EmptyModel: no early return
EmptyModelIgnored(ns) == FALSE

\* `model.node_count() == 0`: an empty model returns before anything is computed
EmptyModel(ns) == Len(ns) = 0

\* the Vec<AntiPattern> inside the Ok(..) detect_anti_patterns returns
DetectedPatterns(ns, es, config) ==
    IF EmptyModel(ns) THEN <<>>
    ELSE LET adjacency == build_adjacency_map(ns, es)
         IN  detect_cycles(ns, adjacency)
             \o detect_bottlenecks(adjacency, config.bottleneck_threshold)
             \o detect_over_coupling(adjacency, config.over_coupling_threshold)
             \o (IF config.detect_isolated
                 THEN detect_isolated_components(ns, adjacency)
                 ELSE <<>>)

detect_anti_patterns(config) ==
    /\ pc = "idle"
    /\ result' = [NoResult EXCEPT !.call = "detect_anti_patterns", !.config = Some(config),
                                  !.status = "ok",
                                  !.patterns = DetectedPatterns(nodes, edges, config)]
    /\ UNCHANGED <<nodes, edges, adjacency_matrix, last_mutator, OptimizerIdle, dfs>>

-----------------------------------------------------------------------------
(* anti_patterns.rs: detect_anti_patterns step by step *)

\* no detection in progress
NoTraversal ==
    [color |-> [id \in {} |-> "White"], parent |-> [id \in {} |-> None],
     entered |-> [id \in {} |-> 0], root |-> 0, stack |-> <<>>, walk |-> None,
     patterns |-> <<>>]

\* mutant of IsWhite: a node in progress counts as unvisited too
IsNotBlack(color, id) == id \in DOMAIN color /\ color[id] # "Black"

\* `Some(Color::White)` of color.get, `color[&node.id] == Color::White`
IsWhite(color, id) == id \in DOMAIN color /\ color[id] = "White"

\* detect_anti_patterns up to the second loop of detect_cycles: the early
\* return on an empty model, build_adjacency_map, every node White and
\* without parent
detect_anti_patterns_begin(config) ==
    /\ pc = "idle"
    /\ IF EmptyModel(nodes)
       THEN /\ result' = [NoResult EXCEPT !.call = "detect_anti_patterns",
                                          !.config = Some(config), !.status = "ok"]
            /\ UNCHANGED <<pc, dfs>>
       ELSE LET ids == {nodes[i].id : i \in DOMAIN nodes}
            IN  /\ pc' = "detecting"
                /\ dfs' = [NoTraversal EXCEPT !.color = [id \in ids |-> "White"],
                                              !.parent = [id \in ids |-> None],
                                              !.entered = [id \in ids |-> 0],
                                              !.root = 1]
                /\ result' = [Running("detect_anti_patterns") EXCEPT !.config = Some(config)]
    /\ UNCHANGED <<nodes, edges, adjacency_matrix, last_mutator, optimizer, positions,
                   iteration, temperature>>

\* the entry of dfs_visit: the node turns Gray and its neighbor loop starts
Enter(traversal, node_id) ==
    [traversal EXCEPT !.color[node_id] = "Gray",
                      !.entered[node_id] = @ + 1,
                      !.stack = Append(@, [node_id |-> node_id, next |-> 1])]

\* dfs_visit returns None to its caller: to the neighbor loop of the frame
\* below, or to the root loop of detect_cycles, which goes to its next node
ReturnNone(traversal) ==
    LET rest == SubSeq(traversal.stack, 1, Len(traversal.stack) - 1)
    IN  [traversal EXCEPT !.stack = rest,
                          !.root = IF rest = <<>> THEN @ + 1 ELSE @]

\* dfs_visit returns Some(cycle): every frame returns it at once, and
\* detect_cycles pushes the pattern and goes to its next node
ReturnSome(traversal, cycle) ==
    [traversal EXCEPT !.walk = None,
                      !.stack = <<>>,
                      !.patterns = Append(@, Cycle(cycle)),
                      !.root = @ + 1]

UnchangedByDetection ==
    UNCHANGED <<nodes, edges, adjacency_matrix, last_mutator, pc, optimizer, positions,
                iteration, temperature, result>>

\* one turn of the second `for node in &model.nodes` loop of detect_cycles
detect_cycles_step ==
    /\ pc = "detecting"
    /\ dfs.stack = <<>>
    /\ dfs.root <= Len(nodes)
    /\ dfs' = IF IsWhite(dfs.color, nodes[dfs.root].id)
              THEN Enter(dfs, nodes[dfs.root].id)
              ELSE [dfs EXCEPT !.root = @ + 1]
    /\ UnchangedByDetection

\* one turn of the `for neighbor in neighbors` loop of the innermost
\* dfs_visit, or its end (the node turns Black)
dfs_visit_step ==
    /\ pc = "detecting"
    /\ dfs.stack # <<>>
    /\ dfs.walk = None
    /\ LET top == Len(dfs.stack)
           node_id == dfs.stack[top].node_id
           adjacency == build_adjacency_map(nodes, edges)
           neighbors == IF node_id \in DOMAIN adjacency THEN adjacency[node_id] ELSE <<>>
           advanced == [dfs EXCEPT !.stack[top].next = @ + 1]
       IN  IF dfs.stack[top].next > Len(neighbors)
           THEN dfs' = ReturnNone([dfs EXCEPT !.color[node_id] = "Black"])
           ELSE LET neighbor == neighbors[dfs.stack[top].next]
                IN  IF IsWhite(dfs.color, neighbor)
                    THEN dfs' = Enter([advanced EXCEPT !.parent[neighbor] = Some(node_id)],
                                      neighbor)
                    ELSE IF neighbor \in DOMAIN dfs.color /\ dfs.color[neighbor] = "Gray"
                    THEN dfs' = [dfs EXCEPT !.walk = Some([cycle |-> <<neighbor>>,
                                                           current |-> node_id,
                                                           cycle_start |-> neighbor])]
                    ELSE dfs' = advanced
    /\ UnchangedByDetection

\* one test of the `while current != cycle_start` loop of reconstruct_cycle
reconstruct_cycle_step ==
    /\ pc = "detecting"
    /\ IsSome(dfs.walk)
    /\ LET walk == Unwrap(dfs.walk)
           pushed == Append(walk.cycle, walk.current)
       IN  IF walk.current = walk.cycle_start
           THEN dfs' = ReturnSome(dfs, Reverse(walk.cycle))
           ELSE IF walk.current \in DOMAIN dfs.parent /\ IsSome(dfs.parent[walk.current])
           THEN dfs' = [dfs EXCEPT !.walk = Some([walk EXCEPT
                                                     !.cycle = pushed,
                                                     !.current = Unwrap(dfs.parent[walk.current])])]
           ELSE dfs' = ReturnSome(dfs, Reverse(pushed))
    /\ UnchangedByDetection

\* the rest of detect_anti_patterns: detect_cycles returns, the three other
\* detectors run and the patterns are returned
detect_anti_patterns_end ==
    /\ pc = "detecting"
    /\ dfs.stack = <<>>
    /\ dfs.root > Len(nodes)
    /\ LET config == Unwrap(result.config)
           adjacency == build_adjacency_map(nodes, edges)
       IN  result' = [result EXCEPT
                         !.status = "ok",
                         !.patterns =
                             dfs.patterns
                             \o detect_bottlenecks(adjacency, config.bottleneck_threshold)
                             \o detect_over_coupling(adjacency, config.over_coupling_threshold)
                             \o (IF config.detect_isolated
                                 THEN detect_isolated_components(nodes, adjacency)
                                 ELSE <<>>)]
    /\ pc' = "idle"
    /\ dfs' = NoTraversal
    /\ UNCHANGED <<nodes, edges, adjacency_matrix, last_mutator, optimizer, positions,
                   iteration, temperature>>

\* the configurations a caller passes (thresholds of at least 1)
Configs ==
    {AntiPatternConfig(b, o, d) : b \in 1..MaxThreshold, o \in 1..MaxThreshold, d \in BOOLEAN}

-----------------------------------------------------------------------------
(* parser.rs: parse_c4_dsl *)

\* The text is a sequence of symbols: a word (a maximal run of \w
\* characters), the arrow, the double quote, the blank, the line feed, or the
\* character "#" (neither \w nor \s nor a quote).  The argument `input` of
\* parse_c4_dsl is kept as its sequence of lines; Text(input) is the &str.
Quote == "\""

LineFeed == "\n"

Blank == " "

Arrow == "->"

IsSpace(s) == s \in {Blank, LineFeed}

\* a symbol that \w+ matches
IsWord(s) == s \notin {Blank, LineFeed, Quote, Arrow, "#"}

RECURSIVE Text(_)
\* the lines joined by line feeds
Text(input) ==
    IF Len(input) = 0 THEN <<>>
    ELSE IF Len(input) = 1 THEN input[1]
    ELSE input[1] \o <<LineFeed>> \o Text(Tail(input))

\* (?m)^ : the start of the text or the position after a line feed
LineStart(text, p) == p = 1 \/ text[p - 1] = LineFeed

RECURSIVE SkipSpace(_, _)
\* \s* from p: the first position at or after p that holds no white space
SkipSpace(text, p) ==
    IF p <= Len(text) /\ IsSpace(text[p]) THEN SkipSpace(text, p + 1) ELSE p

RECURSIVE SkipToQuote(_, _)
\* [^"]* from p: the first position at or after p that holds a quote
SkipToQuote(text, p) ==
    IF p <= Len(text) /\ text[p] # Quote THEN SkipToQuote(text, p + 1) ELSE p

\* \s+"([^"]+)" from p: the position after the closing quote, or 0
SpacedQuoted(text, p) ==
    LET open == SkipSpace(text, p)
        close == SkipToQuote(text, open + 1)
    IN  IF /\ open > p
           /\ open <= Len(text) /\ text[open] = Quote
           /\ close <= Len(text)
           /\ close > open + 1
        THEN close + 1
        ELSE 0

\* a regex match: the position after it and its capture groups 1 and 2
Captures(end, first, second) == [end |-> end, first |-> first, second |-> second]

NoMatch == Captures(0, "", "")

\* ^\s*<keyword>\s+(\w+)\s+"([^"]+)" and, for container and component,
\* (?:\s+"([^"]+)")? , tried at the line start p
Declaration(keyword, text, p) ==
    LET k == SkipSpace(text, p)
        id == SkipSpace(text, k + 1)
        name_end == IF id <= Len(text) THEN SpacedQuoted(text, id + 1) ELSE 0
        technology_end == IF keyword \in {"container", "component"} /\ name_end # 0
                          THEN SpacedQuoted(text, name_end)
                          ELSE 0
    IN  IF /\ k <= Len(text) /\ text[k] = keyword
           /\ id > k + 1
           /\ id <= Len(text) /\ IsWord(text[id])
           /\ name_end # 0
        THEN Captures(IF technology_end # 0 THEN technology_end ELSE name_end, text[id], "")
        ELSE NoMatch

\* ^\s*(\w+)\s*->\s*(\w+)(?:\s+"([^"]+)")? tried at the line start p
Relationship(text, p) ==
    LET from == SkipSpace(text, p)
        arrow == SkipSpace(text, from + 1)
        to == SkipSpace(text, arrow + 1)
        label_end == IF to <= Len(text) THEN SpacedQuoted(text, to + 1) ELSE 0
    IN  IF /\ from <= Len(text) /\ IsWord(text[from])
           /\ arrow <= Len(text) /\ text[arrow] = Arrow
           /\ to <= Len(text) /\ IsWord(text[to])
        THEN Captures(IF label_end # 0 THEN label_end ELSE to + 1, text[from], text[to])
        ELSE NoMatch

\* the five patterns, each named by its keyword
Regex(pattern, text, p) ==
    IF ~LineStart(text, p) THEN NoMatch
    ELSE IF pattern = "relationship" THEN Relationship(text, p)
    ELSE Declaration(pattern, text, p)

RECURSIVE captures_iter(_, _, _)
\* the successive non-overlapping matches of the pattern from position p on
captures_iter(pattern, text, p) ==
    IF p > Len(text) THEN <<>>
    ELSE LET cap == Regex(pattern, text, p)
         IN  IF cap.end # 0
             THEN <<cap>> \o captures_iter(pattern, text, cap.end)
             ELSE captures_iter(pattern, text, p + 1)

\* the nodes one of the four declaration loops adds
DeclaredNodes(keyword, text) ==
    LET caps == captures_iter(keyword, text, 1)
    IN  [n \in DOMAIN caps |-> OptaNode_new(caps[n].first)]

\* the model parse_c4_dsl returns: [nodes, edges]
ParsedModel(input) ==
    LET text == Text(input)
        caps == captures_iter("relationship", text, 1)
    IN  [nodes |-> DeclaredNodes("container", text) \o DeclaredNodes("component", text)
                   \o DeclaredNodes("person", text) \o DeclaredNodes("system", text),
         edges |-> [n \in DOMAIN caps |-> OptaEdge_new(caps[n].first, caps[n].second, 1)]]

\* the mutator parse_c4_dsl called last on the model it returns
LastParseCall(model) ==
    IF Len(model.edges) > 0 THEN "add_edge"
    ELSE IF Len(model.nodes) > 0 THEN "add_node"
    ELSE "new"

\* `model = parse_c4_dsl(input)?`: the caller's model is replaced
parse_c4_dsl(input) ==
    /\ pc = "idle"
    /\ nodes' = ParsedModel(input).nodes
    /\ edges' = ParsedModel(input).edges
    /\ adjacency_matrix' = None
    /\ last_mutator' = LastParseCall(ParsedModel(input))
    /\ result' = [NoResult EXCEPT !.call = "parse_c4_dsl", !.input = input, !.status = "ok"]
    /\ UNCHANGED <<OptimizerIdle, dfs>>

\* the lines of the texts given to parse_c4_dsl
DslLines ==
    { <<"container", Blank, "a", Blank, Quote, "n", Quote>>,
      <<"container", Blank, "b", Blank, Quote, "n", Quote, Blank, Quote, "t", Quote>>,
      <<"component", Blank, "b", Blank, Quote, "n", Quote>>,
      <<"person", Blank, "a", Blank, Quote, "n", Quote>>,
      <<"system", Blank, "b", Blank, Quote, "n", Quote>>,
      <<"a", Blank, Arrow, Blank, "b">>,
      <<"b", Blank, Arrow, Blank, "x", Blank, Quote, "l", Quote>>,
      <<"x", Arrow, "a">>,
      <<>>,
      <<"#", Blank, "person", Blank, "a", Blank, Quote, "n", Quote>>,
      <<"person", Blank, "a", Blank, "n">>,
      <<"a", Blank, Arrow>>,
      <<"container", Blank, "b", Blank, Quote, "oops">> }

RECURSIVE SeqsUpTo(_, _)
\* the sequences of at most n elements of S
SeqsUpTo(S, n) ==
    IF n = 0 THEN {<<>>}
    ELSE LET shorter == SeqsUpTo(S, n - 1)
         IN  shorter \cup {Append(q, x) : q \in shorter, x \in S}

Texts == SeqsUpTo(DslLines, MaxLines)

-----------------------------------------------------------------------------
(* viz.rs: to_dot *)

\* f32 comparisons of two quotients num/den with positive denominators
Less(x, y) == x[1] * y[2] < y[1] * x[2]

AtLeast(x, y) == ~Less(x, y)

\* f32::max
f32_max(x, y) == IF Less(x, y) THEN y ELSE x

\* the severity a Cycle gives to each of its nodes
CycleSeverity == <<1, 1>>

\* the severity an IsolatedComponent gives to its node: 0.3
IsolatedSeverity == <<3, 10>>

NoSeverity == <<0, 1>>

\* let current = severity_map.entry(node_id).or_insert(0.0);
\* *current = (*current).max(severity)
Raise(severity_map, node_id, severity) ==
    LET current == IF node_id \in DOMAIN severity_map THEN severity_map[node_id]
                   ELSE NoSeverity
    IN  (node_id :> f32_max(current, severity)) @@ severity_map

RECURSIVE RaiseCycle(_, _, _)
\* the `for node_id in nodes` loop of the Cycle arm from node number n on
RaiseCycle(severity_map, cycle, n) ==
    IF n > Len(cycle) THEN severity_map
    ELSE RaiseCycle(Raise(severity_map, cycle[n], CycleSeverity), cycle, n + 1)

RECURSIVE SeverityFold(_, _, _)
\* the `for pattern in patterns` loop of build_severity_map from pattern n on
SeverityFold(severity_map, patterns, n) ==
    IF n > Len(patterns) THEN severity_map
    ELSE LET pattern == patterns[n]
             raised ==
                 IF pattern.kind = "Cycle" THEN RaiseCycle(severity_map, pattern.nodes, 1)
                 ELSE IF pattern.kind = "IsolatedComponent"
                 THEN Raise(severity_map, pattern.node_id, IsolatedSeverity)
                 ELSE Raise(severity_map, pattern.node_id, pattern.severity)
         IN  SeverityFold(raised, patterns, n + 1)

build_severity_map(patterns) == SeverityFold([id \in {} |-> NoSeverity], patterns, 1)

extract_cycle_nodes(patterns) ==
    UNION {{patterns[n].nodes[k] : k \in DOMAIN patterns[n].nodes} :
              n \in {n \in DOMAIN patterns : patterns[n].kind = "Cycle"}}

\* mutant of severity_to_color: the critical band starts above 1.0
severity_to_color_above_one(severity) ==
    IF Less(<<1, 1>>, severity) THEN "#ff4444"
    ELSE IF AtLeast(severity, <<7, 10>>) THEN "#ff8844"
    ELSE IF AtLeast(severity, <<3, 10>>) THEN "#ffcc44"
    ELSE IF Less(NoSeverity, severity) THEN "#cccccc"
    ELSE "#aaddaa"

severity_to_color(severity) ==
    IF AtLeast(severity, <<1, 1>>) THEN "#ff4444"
    ELSE IF AtLeast(severity, <<7, 10>>) THEN "#ff8844"
    ELSE IF AtLeast(severity, <<3, 10>>) THEN "#ffcc44"
    ELSE IF Less(NoSeverity, severity) THEN "#cccccc"
    ELSE "#aaddaa"

\* a statement of the DOT document; the fields a statement does not have keep
\* these defaults.  The label and the shape (node name and type) are left out.
NoStatement ==
    [kind |-> "", id |-> "", fillcolor |-> "", style |-> "", severity |-> NoSeverity,
     from |-> "", to |-> "", penwidth |-> <<0, 1>>, color |-> ""]

\* "<id>" [label=.., fillcolor=.., shape=.., style=..] of one node
NodeStatement(node, severity_map) ==
    LET severity == IF node.id \in DOMAIN severity_map THEN severity_map[node.id]
                    ELSE NoSeverity
    IN  [NoStatement EXCEPT
            !.kind = "node",
            !.id = node.id,
            !.fillcolor = severity_to_color(severity),
            !.style = IF Less(NoSeverity, severity) /\ Less(severity, <<1, 2>>)
                      THEN "filled,dashed"
                      ELSE "filled",
            !.severity = severity]

\* "<from>" -> "<to>" [label=.., penwidth=.. , color=..] of one edge
EdgeStatement(edge, cycle_nodes) ==
    LET is_cycle_edge == edge.from \in cycle_nodes /\ edge.to \in cycle_nodes
    IN  [NoStatement EXCEPT
            !.kind = "edge",
            !.from = edge.from,
            !.to = edge.to,
            \* 3.0, or 1.0 + (weight - 1.0) * 0.5
            !.penwidth = IF is_cycle_edge THEN <<3, 1>> ELSE <<1 + edge.weight, 2>>,
            !.color = IF is_cycle_edge THEN "#ff0000" ELSE ""]

\* the patterns to_dot works from
ExportPatterns(ns, es, config) ==
    IF IsSome(config) THEN DetectedPatterns(ns, es, Unwrap(config)) ELSE <<>>

\* the node statements in model order, then the edge statements
DotStatements(ns, es, patterns) ==
    LET severity_map == build_severity_map(patterns)
        cycle_nodes == extract_cycle_nodes(patterns)
    IN  [n \in DOMAIN ns |-> NodeStatement(ns[n], severity_map)]
        \o [e \in DOMAIN es |-> EdgeStatement(es[e], cycle_nodes)]

\* to_dot(model, config) with config: Option<&AntiPatternConfig>
to_dot(config) ==
    /\ pc = "idle"
    /\ LET patterns == ExportPatterns(nodes, edges, config)
       IN  result' = [NoResult EXCEPT !.call = "to_dot", !.config = config, !.status = "ok",
                                      !.patterns = patterns,
                                      !.dot = DotStatements(nodes, edges, patterns)]
    /\ UNCHANGED <<nodes, edges, adjacency_matrix, last_mutator, OptimizerIdle, dfs>>

\* a statement of the positioned document: a node with its pos attribute (if
\* it has a position), or an undirected edge
PositionedStatements(ns, es) ==
    [n \in DOMAIN ns |-> [kind |-> "node", id |-> ns[n].id, pos |-> ns[n].position,
                          from |-> "", to |-> ""]]
    \o [e \in DOMAIN es |-> [kind |-> "edge", id |-> "", pos |-> None,
                             from |-> es[e].from, to |-> es[e].to]]

\* to_dot_with_positions(model)
to_dot_with_positions ==
    /\ pc = "idle"
    /\ result' = [NoResult EXCEPT !.call = "to_dot_with_positions", !.status = "ok",
                                  !.dot = PositionedStatements(nodes, edges)]
    /\ UNCHANGED <<nodes, edges, adjacency_matrix, last_mutator, OptimizerIdle, dfs>>

\* AntiPatternConfig::default()
AntiPatternConfig_default == AntiPatternConfig(5, 7, TRUE)

\* the configurations given to to_dot: none, the default, and low thresholds
DotConfigs ==
    {None, Some(AntiPatternConfig_default)}
    \cup {Some(AntiPatternConfig(b, MaxDotThreshold, d)) :
             b \in 0..MaxDotThreshold, d \in BOOLEAN}

-----------------------------------------------------------------------------
(* optacore_jni/src/lib.rs: detectAntiPatterns *)

\* A JSON number is the quotient num/den with den > 0.  A configuration
\* payload (config_json) is None for the empty string, or Some object whose
\* two threshold fields are None (absent) or Some number.  Texts that are not
\* JSON are left out.
ConfigObject(bottleneck_threshold, over_coupling_threshold) ==
    [bottleneck_threshold |-> bottleneck_threshold,
     over_coupling_threshold |-> over_coupling_threshold]

\* Value::as_u64: the number, if it is a non-negative integer
as_u64(v) == IF v[2] = 1 /\ v[1] >= 0 THEN Some(v[1]) ELSE None

\* json.get(field).and_then(|v| v.as_u64()).unwrap_or(default)
ThresholdOr(field, default) ==
    LET parsed == IF IsSome(field) THEN as_u64(Unwrap(field)) ELSE None
    IN  IF IsSome(parsed) THEN Unwrap(parsed) ELSE default

\* unwrap_or(5) of bottleneck_threshold
JniBottleneckDefault == 5

\* unwrap_or(8) of over_coupling_threshold
JniOverCouplingDefault == 8

\* the AntiPatternConfig built from config_json, before validate_config
ParsedConfig(config_json) ==
    IF ~IsSome(config_json) THEN AntiPatternConfig_default
    ELSE AntiPatternConfig(
             ThresholdOr(Unwrap(config_json).bottleneck_threshold, JniBottleneckDefault),
             ThresholdOr(Unwrap(config_json).over_coupling_threshold, JniOverCouplingDefault),
             TRUE)

\* validate_config: "" for Ok(()), or the message of the error
validate_config(config) ==
    IF config.bottleneck_threshold < 1 THEN "Invalid bottleneck_threshold"
    ELSE IF config.over_coupling_threshold < 1 THEN "Invalid over_coupling_threshold"
    ELSE ""

\* the model document a caller sends for its model: every node with its id
\* and position, every edge with from, to and weight
ModelJson(ns, es) == [nodes |-> ns, edges |-> es]

\* json_to_model on such a document: the nodes, then the edges, in order
json_to_model(json) ==
    [nodes |-> [n \in DOMAIN json.nodes |->
                   [OptaNode_new(json.nodes[n].id) EXCEPT !.position = json.nodes[n].position]],
     edges |-> [e \in DOMAIN json.edges |->
                   OptaEdge_new(json.edges[e].from, json.edges[e].to, json.edges[e].weight)]]

\* Java_com_optafly_structurizr_OptaCoreJNI_detectAntiPatterns(model_json,
\* config_json) for the document of the current model; validate_config is
\* called for a parsed payload only
detectAntiPatterns(config_json) ==
    /\ pc = "idle"
    /\ LET model == json_to_model(ModelJson(nodes, edges))
           config == ParsedConfig(config_json)
           invalid == IF IsSome(config_json) THEN validate_config(config) ELSE ""
       IN  result' =
               IF invalid # ""
               THEN [Failure("detectAntiPatterns", "err", invalid) EXCEPT
                        !.input = Some(config_json)]
               ELSE [NoResult EXCEPT
                        !.call = "detectAntiPatterns",
                        !.input = Some(config_json),
                        !.config = Some(config),
                        !.status = "ok",
                        !.patterns = DetectedPatterns(model.nodes, model.edges, config)]
    /\ UNCHANGED <<nodes, edges, adjacency_matrix, last_mutator, OptimizerIdle, dfs>>

\* the numbers a payload gives to a threshold: -1, 0, 1/2, 1 .. MaxJsonThreshold
JsonThresholds == {<<-1, 1>>, <<0, 1>>, <<1, 2>>} \cup {<<n, 1>> : n \in 1..MaxJsonThreshold}

JsonFields == {None} \cup {Some(v) : v \in JsonThresholds}

ConfigPayloads ==
    {None} \cup {Some(ConfigObject(b, o)) : b \in JsonFields, o \in JsonFields}

-----------------------------------------------------------------------------
(* Specification: the graph model *)

Init ==
    /\ nodes = <<>>
    /\ edges = <<>>
    /\ adjacency_matrix = None
    /\ last_mutator = "new"
    /\ pc = "idle"
    /\ optimizer = None
    /\ positions = <<>>
    /\ iteration = 0
    /\ temperature = None
    /\ dfs = NoTraversal
    /\ result = NoResult

AddNode == \E id \in NodeIds : Len(nodes) < MaxNodes /\ add_node(OptaNode_new(id))

AddEdge ==
    \E from \in EdgeIds, to \in EdgeIds, w \in Weights :
        Len(edges) < MaxEdges /\ add_edge(OptaEdge_new(from, to, w))

Next ==
    \/ AddNode
    \/ AddEdge
    \/ build_adjacency_matrix

Spec == Init /\ [][Next]_vars

-----------------------------------------------------------------------------
(* Specification: the graph model with the layout optimizer *)

AddLayoutEdge ==
    \E from \in NodeIds, to \in NodeIds, w \in Weights :
        Len(edges) < MaxLayoutEdges /\ add_edge(OptaEdge_new(from, to, w))

OptimizeLayout == \E self \in Optimizers : optimize_layout_begin(self)

NextLayout ==
    \/ AddNode
    \/ AddLayoutEdge
    \/ build_adjacency_matrix
    \/ OptimizeLayout
    \/ optimize_layout_iterate
    \/ optimize_layout_end

SpecLayout == Init /\ [][NextLayout]_vars

-----------------------------------------------------------------------------
(* Specification: the graph model with the anti-pattern detector *)

\* the model is filled the way parse_c4_dsl fills it: the nodes, then the edges
AddDetectNode ==
    \E id \in DetectIds :
        Len(nodes) < MaxDetectNodes /\ Len(edges) = 0 /\ add_node(OptaNode_new(id))

AddDetectEdge ==
    \E from \in DetectIds, to \in DetectIds :
        Len(edges) < MaxDetectEdges /\ add_edge(OptaEdge_new(from, to, 1))

DetectAntiPatterns == \E config \in Configs : detect_anti_patterns(config)

NextDetect ==
    \/ AddDetectNode
    \/ AddDetectEdge
    \/ DetectAntiPatterns

SpecDetect == Init /\ [][NextDetect]_vars

-----------------------------------------------------------------------------
(* Specification: the anti-pattern detector step by step *)

\* the configuration of the calls that are followed step by step
TraversalConfigs == {AntiPatternConfig(1, 1, TRUE)}

DetectBegin == \E config \in TraversalConfigs : detect_anti_patterns_begin(config)

NextTraversal ==
    \/ AddDetectNode
    \/ AddDetectEdge
    \/ DetectBegin
    \/ detect_cycles_step
    \/ dfs_visit_step
    \/ reconstruct_cycle_step
    \/ detect_anti_patterns_end

SpecTraversal == Init /\ [][NextTraversal]_vars

-----------------------------------------------------------------------------
(* Specification: the parser *)

\* `let mut model = parse_c4_dsl(input)?` is how a caller gets its model: the
\* text is parsed once, before any other call
Unstarted == last_mutator = "new" /\ result = NoResult

ParseC4Dsl == \E input \in Texts : Unstarted /\ parse_c4_dsl(input)

NextParse == ParseC4Dsl

SpecParse == Init /\ [][NextParse]_vars

-----------------------------------------------------------------------------
(* Specification: the graph model with the DOT exporter *)

ToDot == \E config \in DotConfigs : to_dot(config)

NextDot ==
    \/ AddDetectNode
    \/ AddDetectEdge
    \/ ToDot

SpecDot == Init /\ [][NextDot]_vars

-----------------------------------------------------------------------------
(* Specification: the complete workflow (parse, build, optimize, detect, export) *)

\* the lines of the texts of the workflow: a declaration, a relationship
\* between an undeclared and a declared id, and a dangling arrow
WorkflowLines ==
    { <<"container", Blank, "a", Blank, Quote, "n", Quote>>,
      <<"x", Arrow, "a">>,
      <<"a", Blank, Arrow>> }

WorkflowTexts == SeqsUpTo(WorkflowLines, MaxWorkflowLines)

ParseWorkflow == \E input \in WorkflowTexts : Unstarted /\ parse_c4_dsl(input)

\* OptaOptimizer::new(1, 0.1).with_area(a) for an empty and a small area
WorkflowOptimizers == {with_area(OptaOptimizer_new(1, <<1, 10>>), a) : a \in {0, 1}}

OptimizeWorkflow == \E self \in WorkflowOptimizers : optimize_layout_begin(self)

DetectWorkflow == detect_anti_patterns(AntiPatternConfig_default)

ExportWorkflow == \E config \in {None, Some(AntiPatternConfig_default)} : to_dot(config)

NextWorkflow ==
    \/ ParseWorkflow
    \/ AddNode
    \/ AddLayoutEdge
    \/ build_adjacency_matrix
    \/ OptimizeWorkflow
    \/ optimize_layout_iterate
    \/ optimize_layout_end
    \/ DetectWorkflow
    \/ ExportWorkflow
    \/ to_dot_with_positions

SpecWorkflow == Init /\ [][NextWorkflow]_vars

-----------------------------------------------------------------------------
(* Specification: the graph model behind the JNI bridge *)

JniDetectAntiPatterns == \E config_json \in ConfigPayloads : detectAntiPatterns(config_json)

NextConfig ==
    \/ AddNode
    \/ AddLayoutEdge
    \/ JniDetectAntiPatterns

SpecConfig == Init /\ [][NextConfig]_vars

-----------------------------------------------------------------------------
(* Claims about the graph model (Spec) *)

\* C1: after any sequence of add_node, add_edge and build_adjacency_matrix
\* calls the cached matrix is present if and only if the model has at least
\* one node and the most recent of those calls was build_adjacency_matrix;
\* so every add_node and every add_edge leaves it absent.
C1_MatrixPresentIffBuiltLast ==
    IsSome(adjacency_matrix) <=>
        (Len(nodes) >= 1 /\ last_mutator = "build_adjacency_matrix")

\* a matrix built over a full model that holds edges
C1_Witness ==
    /\ IsSome(adjacency_matrix)
    /\ last_mutator = "build_adjacency_matrix"
    /\ Len(nodes) = MaxNodes
    /\ Len(edges) >= 1

DistinctIds(ns) == \A i, j \in DOMAIN ns : ns[i].id = ns[j].id => i = j

\* the edges from node i's id to node j's id, by insertion number
EdgesBetween(i, j) ==
    {e \in DOMAIN edges : edges[e].from = nodes[i].id /\ edges[e].to = nodes[j].id}

\* C10: after build_adjacency_matrix on a model with n >= 1 nodes of
\* distinct ids the matrix is n x n, and cell [i][j] is the weight of the
\* last edge in insertion order from node i's id to node j's id, or 0 when
\* there is none; an edge with an endpoint that names no node therefore
\* contributes to no cell.
C10_CellIsLastEdgeWeight ==
    (IsSome(adjacency_matrix) /\ DistinctIds(nodes)) =>
        LET m == Unwrap(adjacency_matrix)
            n == Len(nodes)
        IN  /\ n >= 1
            /\ Len(m) = n
            /\ \A i \in 1..n :
                   /\ Len(m[i]) = n
                   /\ \A j \in 1..n :
                          m[i][j] = IF EdgesBetween(i, j) = {} THEN 0
                                    ELSE edges[SetMax(EdgesBetween(i, j))].weight

\* a built matrix over two distinct nodes and two parallel edges of different
\* positive weights
C10_Witness ==
    /\ IsSome(adjacency_matrix)
    /\ DistinctIds(nodes)
    /\ Len(nodes) = 2
    /\ Len(edges) = 2
    /\ edges[1].from = nodes[1].id /\ edges[1].to = nodes[2].id
    /\ edges[2].from = nodes[1].id /\ edges[2].to = nodes[2].id
    /\ edges[1].weight > edges[2].weight
    /\ edges[2].weight > 0
    /\ Unwrap(adjacency_matrix)[1][2] = edges[2].weight

-----------------------------------------------------------------------------
(* Claims about the layout optimizer (SpecLayout) *)

\* a step that is optimize_layout's entry (its checks and initialisation)
OptimizeCalled == pc = "idle" /\ result'.call = "optimize_layout"

ModelUnchanged == UNCHANGED <<nodes, edges, adjacency_matrix>>

\* C2: optimize_layout fails with the empty-model error when the model has
\* no node, fails with the matrix-not-built error when it has nodes but no
\* cached matrix, and otherwise goes on to succeed; on either failure the
\* model, node positions included, is left exactly as it was.
C2_OptimizeOutcome ==
    [][/\ OptimizeCalled =>
           /\ (node_count = 0) =>
                  /\ result' = Failure("optimize_layout", "err", ErrEmptyModel)
                  /\ ModelUnchanged
           /\ (node_count > 0 /\ ~IsSome(adjacency_matrix)) =>
                  /\ result' = Failure("optimize_layout", "err", ErrMatrixNotBuilt)
                  /\ ModelUnchanged
           /\ (node_count > 0 /\ IsSome(adjacency_matrix)) =>
                  /\ result' = Running("optimize_layout")
                  /\ pc' = "iterating"
       /\ (pc = "iterating" /\ pc' = "idle") => result' = Unit("optimize_layout")
      ]_vars

InBounds(p, self) ==
    /\ p[1] >= 0 /\ p[1] <= Sqrt(self.area)
    /\ p[2] >= 0 /\ p[2] <= Sqrt(self.area)

\* C3: with N > 0 iterations, the working positions lie in [0, sqrt(A)]^2
\* after initialisation and after the clamp of every iteration, and when
\* optimize_layout returns every node has a position in [0, sqrt(A)]^2.
C3_PositionsInBounds ==
    [][/\ (pc' = "iterating" /\ Unwrap(optimizer').iterations > 0) =>
           /\ Len(positions') = Len(nodes')
           /\ \A i \in DOMAIN positions' : InBounds(positions'[i], Unwrap(optimizer'))
       /\ (pc = "iterating" /\ pc' = "idle" /\ Unwrap(optimizer).iterations > 0) =>
           /\ result' = Unit("optimize_layout")
           /\ \A i \in DOMAIN nodes' :
                  /\ IsSome(nodes'[i].position)
                  /\ InBounds(Unwrap(nodes'[i].position), Unwrap(optimizer))
      ]_vars

\* the last iteration is done and the clamp has put a coordinate on sqrt(A),
\* a value initialisation cannot produce
C3_Witness ==
    /\ pc = "iterating"
    /\ Unwrap(optimizer).iterations > 0
    /\ iteration = Unwrap(optimizer).iterations
    /\ Len(positions) = 2
    /\ \E i \in DOMAIN positions : positions[i][1] = Sqrt(Unwrap(optimizer).area)
    /\ \E i \in DOMAIN positions : positions[i][2] = 0

-----------------------------------------------------------------------------
(* Claims about the anti-pattern detector (SpecDetect) *)

\* detect_anti_patterns is the most recent call; result.patterns is its Vec
Detected == result.call = "detect_anti_patterns"

Config == Unwrap(result.config)

PatternsOfKind(kind) == {n \in DOMAIN result.patterns : result.patterns[n].kind = kind}

DeclaredIds == {nodes[i].id : i \in DOMAIN nodes}

DeclaredEdges ==
    {<<edges[e].from, edges[e].to>> : e \in
        {e \in DOMAIN edges : edges[e].from \in DeclaredIds /\ edges[e].to \in DeclaredIds}}

RECURSIVE TransitiveClosure(_)
TransitiveClosure(R) ==
    LET next == R \cup {<<pq[1][1], pq[2][2]>> :
                            pq \in {pq \in R \X R : pq[1][2] = pq[2][1]}}
    IN  IF next = R THEN R ELSE TransitiveClosure(next)

HasDirectedCycle == \E id \in DeclaredIds : <<id, id>> \in TransitiveClosure(DeclaredEdges)

\* the model is a directed ring over three distinct nodes
IsRing ==
    /\ Len(nodes) = 3
    /\ Cardinality(DeclaredIds) = 3
    /\ Len(edges) = 3
    /\ \E x, y, z \in DeclaredIds :
           /\ Cardinality({x, y, z}) = 3
           /\ {<<edges[e].from, edges[e].to>> : e \in DOMAIN edges} =
                  {<<x, y>>, <<y, z>>, <<z, x>>}

\* C5: at least one Cycle pattern is reported exactly when the directed graph
\* of the edges between declared nodes has a directed cycle (self-loops
\* included), and a 3-node ring yields a Cycle listing all three ids.
C5_CycleReportedIffCyclic ==
    Detected =>
        /\ (PatternsOfKind("Cycle") # {}) <=> HasDirectedCycle
        /\ IsRing =>
               \E n \in PatternsOfKind("Cycle") :
                   {result.patterns[n].nodes[k] : k \in DOMAIN result.patterns[n].nodes}
                       = DeclaredIds

\* a ring was analysed and a Cycle with its three ids came back
C5_Witness ==
    /\ Detected
    /\ IsRing
    /\ \E n \in PatternsOfKind("Cycle") : Len(result.patterns[n].nodes) = 3

InDegree(id) == Cardinality({e \in DOMAIN edges : edges[e].to = id})

OutDegree(id) == Cardinality({e \in DOMAIN edges : edges[e].from = id})

C7_OverCouplingIffOutDegree ==
    (Detected /\ Config.over_coupling_threshold >= 1) =>
        LET t == Config.over_coupling_threshold
        IN  /\ \A id \in DeclaredIds :
                   (\E n \in PatternsOfKind("OverCoupling") : result.patterns[n].node_id = id)
                       <=> OutDegree(id) >= t
            /\ \A n \in PatternsOfKind("OverCoupling") :
                   LET p == result.patterns[n]
                   IN  /\ p.out_degree = OutDegree(p.node_id)
                       /\ p.severity = <<p.out_degree, Max2(t, 1)>>

\* a node whose out-degree equals the threshold is reported with severity
\* 2/2, a node with one outgoing edge is not reported
C7_Witness ==
    /\ Detected
    /\ Config.over_coupling_threshold = 2
    /\ \E i, j \in DOMAIN nodes :
           /\ OutDegree(nodes[i].id) = 2
           /\ \E n \in PatternsOfKind("OverCoupling") :
                  /\ result.patterns[n].node_id = nodes[i].id
                  /\ result.patterns[n].severity = <<2, 2>>
           /\ OutDegree(nodes[j].id) = 1
           /\ \A n \in PatternsOfKind("OverCoupling") : result.patterns[n].node_id # nodes[j].id

Untouched(id) == \A e \in DOMAIN edges : edges[e].from # id /\ edges[e].to # id

\* C8: with detect_isolated a node of a non-empty model is reported as
\* IsolatedComponent exactly when no edge has it as source or as target;
\* without detect_isolated no IsolatedComponent is returned.
C8_IsolatedIffUntouched ==
    Detected =>
        IF Config.detect_isolated
        THEN \A id \in DeclaredIds :
                 (\E n \in PatternsOfKind("IsolatedComponent") :
                     result.patterns[n].node_id = id) <=> Untouched(id)
        ELSE PatternsOfKind("IsolatedComponent") = {}

\* one node is reported as isolated, one that only has an incoming edge and
\* one that only has an outgoing edge are not
C8_Witness ==
    /\ Detected
    /\ Config.detect_isolated
    /\ \E i, j, k \in DOMAIN nodes :
           /\ Untouched(nodes[i].id)
           /\ \E n \in PatternsOfKind("IsolatedComponent") :
                  result.patterns[n].node_id = nodes[i].id
           /\ InDegree(nodes[j].id) > 0 /\ OutDegree(nodes[j].id) = 0
           /\ InDegree(nodes[k].id) = 0 /\ OutDegree(nodes[k].id) > 0
           /\ \A n \in PatternsOfKind("IsolatedComponent") :
                  result.patterns[n].node_id \notin {nodes[j].id, nodes[k].id}

\* C9: detect_anti_patterns returns Ok for every model and configuration,
\* and for a model with zero nodes the returned collection is empty.
C9_DetectionTotal ==
    Detected =>
        /\ result.status = "ok"
        /\ result.error = ""
        /\ Len(nodes) = 0 => result.patterns = <<>>

\* a model with edges and no node was analysed with the lowest thresholds
C9_Witness ==
    /\ Detected
    /\ Len(nodes) = 0
    /\ Len(edges) = MaxDetectEdges
    /\ Config.bottleneck_threshold = 1
    /\ Config.over_coupling_threshold = 1
    /\ Config.detect_isolated
    /\ result.patterns = <<>>

-----------------------------------------------------------------------------
(* Claims about the parser (SpecParse) *)

\* parse_c4_dsl is the most recent call; result.input is its text, by lines
Parsed == result.call = "parse_c4_dsl"

\* the symbols of a line other than its blanks
Tokens(line) == SelectSeq(line, LAMBDA s : s # Blank)

\* the line, read alone, has the form  <keyword> <id> "<name>" ...
IsDeclarationLine(line, keyword) ==
    LET tokens == Tokens(line)
    IN  /\ Len(tokens) >= 5
        /\ tokens[1] = keyword
        /\ IsWord(tokens[2])
        /\ tokens[3] = Quote
        /\ tokens[4] # Quote
        /\ \E n \in 5..Len(tokens) : tokens[n] = Quote

\* the line, read alone, has the form  <id> -> <id> ...
IsRelationshipLine(line) ==
    LET tokens == Tokens(line)
    IN  /\ Len(tokens) >= 3
        /\ IsWord(tokens[1])
        /\ tokens[2] = Arrow
        /\ IsWord(tokens[3])

\* the line, read alone, matches one of the five grammar patterns
IsGrammarLine(line) ==
    \/ IsRelationshipLine(line)
    \/ \E keyword \in {"container", "component", "person", "system"} :
           IsDeclarationLine(line, keyword)

\* the ids declared by the lines of one category, in textual order
DeclarationIds(input, keyword) ==
    LET lines == SelectSeq(input, LAMBDA line : IsDeclarationLine(line, keyword))
    IN  [n \in DOMAIN lines |-> Tokens(lines[n])[2]]

\* the endpoints named by the relationship lines, in textual order
RelationshipEnds(input) ==
    LET lines == SelectSeq(input, IsRelationshipLine)
    IN  [n \in DOMAIN lines |-> <<Tokens(lines[n])[1], Tokens(lines[n])[3]>>]

\* C11: parse_c4_dsl inserts the nodes in category-then-occurrence order
\* whatever the order of the lines: the container declarations in textual
\* order, then the components, the persons and the systems; the edges follow
\* in textual order.
C11_CategoryThenOccurrenceOrder ==
    Parsed =>
        /\ [i \in DOMAIN nodes |-> nodes[i].id] =
               DeclarationIds(result.input, "container")
               \o DeclarationIds(result.input, "component")
               \o DeclarationIds(result.input, "person")
               \o DeclarationIds(result.input, "system")
        /\ [e \in DOMAIN edges |-> <<edges[e].from, edges[e].to>>] =
               RelationshipEnds(result.input)

\* C12: parse_c4_dsl returns Ok for every text; a line that matches none of
\* the five grammar patterns produces no node, no edge and no error (the
\* model is the one parsed from the text without such lines), and the empty
\* text gives a model with no node and no edge.
C12_UnmatchedLinesDropped ==
    Parsed =>
        /\ result.status = "ok"
        /\ result.error = ""
        /\ LET kept == ParsedModel(SelectSeq(result.input, IsGrammarLine))
           IN  nodes = kept.nodes /\ edges = kept.edges
        /\ Text(result.input) = <<>> => (nodes = <<>> /\ edges = <<>>)

-----------------------------------------------------------------------------
(* Claims about the DOT exporter (SpecDot) *)

\* to_dot is the most recent call; result.dot is the document it returned
Exported == result.call = "to_dot"

\* the statement of node number n and of edge number e of the document
NodeLine(n) == result.dot[n]

EdgeLine(e) == result.dot[Len(nodes) + e]

\* the edge is drawn in the bold cycle colour
BoldCycleEdge(e) == EdgeLine(e).penwidth = <<3, 1>> /\ EdgeLine(e).color = "#ff0000"

\* the edge is drawn as a normal edge: no colour, 1.0 + (weight - 1.0) * 0.5
NormalEdge(e) == EdgeLine(e).penwidth = <<1 + edges[e].weight, 2>> /\ EdgeLine(e).color = ""

OnDirectedCycle(id) == <<id, id>> \in TransitiveClosure(DeclaredEdges)

\* the node lies on no directed cycle and all it has is an edge into a node
\* that lies on one
FeedsCycle(id) ==
    /\ ~OnDirectedCycle(id)
    /\ \E e \in DOMAIN edges : edges[e].from = id
    /\ \A e \in DOMAIN edges :
           /\ edges[e].to # id
           /\ edges[e].from = id => OnDirectedCycle(edges[e].to)

\* the nodes of the detected cycles: the ids a Cycle pattern lists that lie on
\* a directed cycle of the model
DetectedCycleNodes ==
    {id \in UNION {{result.patterns[n].nodes[k] : k \in DOMAIN result.patterns[n].nodes} :
                      n \in PatternsOfKind("Cycle")} : OnDirectedCycle(id)}

\* C15: with a configuration given, an edge is drawn in the bold cycle colour
\* exactly when both of its endpoints lie on a detected directed cycle; and,
\* under the default thresholds, a node that lies on no directed cycle and
\* only has an edge into a cycle node keeps the healthy fill, its edge being
\* drawn as a normal edge.
C15_BoldIffBothEndsOnCycle ==
    (Exported /\ IsSome(result.config)) =>
        /\ \A e \in DOMAIN edges :
               BoldCycleEdge(e) <=>
                   (edges[e].from \in DetectedCycleNodes /\ edges[e].to \in DetectedCycleNodes)
        /\ result.config = Some(AntiPatternConfig_default) =>
               \A n \in DOMAIN nodes :
                   FeedsCycle(nodes[n].id) =>
                       /\ NodeLine(n).fillcolor = "#aaddaa"
                       /\ \A e \in DOMAIN edges :
                              edges[e].from = nodes[n].id => NormalEdge(e)

\* the severities the detected patterns give to a node id
NamedSeverities(id) ==
    {<<1, 1>> : n \in {n \in PatternsOfKind("Cycle") :
                          \E k \in DOMAIN result.patterns[n].nodes :
                              result.patterns[n].nodes[k] = id}}
    \cup {<<3, 10>> : n \in {n \in PatternsOfKind("IsolatedComponent") :
                                result.patterns[n].node_id = id}}
    \cup {result.patterns[n].severity :
              n \in {n \in PatternsOfKind("Bottleneck") \cup PatternsOfKind("OverCoupling") :
                        result.patterns[n].node_id = id}}

\* the greatest of a set of severities, 0 for the empty set
Highest(S) ==
    IF S = {} THEN <<0, 1>>
    ELSE CHOOSE s \in S : \A t \in S : t[1] * s[2] <= s[1] * t[2]

\* the fixed severity bands
Band(s) ==
    IF s[1] >= s[2] THEN "#ff4444"
    ELSE IF 10 * s[1] >= 7 * s[2] THEN "#ff8844"
    ELSE IF 10 * s[1] >= 3 * s[2] THEN "#ffcc44"
    ELSE IF s[1] > 0 THEN "#cccccc"
    ELSE "#aaddaa"

\* the severities 0.0, 0.2, 0.5, 0.8, 1.5 and the band borders 0.3, 0.7, 1.0
BandSamples ==
    {<<0, 1>>, <<2, 10>>, <<5, 10>>, <<8, 10>>, <<15, 10>>, <<3, 10>>, <<7, 10>>, <<1, 1>>,
     <<29, 100>>, <<69, 100>>, <<99, 100>>, <<1, 100>>}

\* C16: every node is filled by the band of the greatest severity among the
\* detected patterns that name it (Cycle 1.0, Bottleneck and OverCoupling
\* their own severity, IsolatedComponent 0.3): >= 1.0 critical, >= 0.7 high,
\* >= 0.3 medium, > 0 low, 0 healthy; without a configuration no pattern is
\* detected and every node is healthy.
C16_FillIsBandOfMaxSeverity ==
    Exported =>
        /\ \A n \in DOMAIN nodes :
               NodeLine(n).fillcolor = Band(Highest(NamedSeverities(nodes[n].id)))
        /\ \A s \in BandSamples : severity_to_color(s) = Band(s)
        /\ result.config = None =>
               /\ result.patterns = <<>>
               /\ \A n \in DOMAIN nodes : NodeLine(n).fillcolor = "#aaddaa"

\* a node named by a Cycle and by a Bottleneck is critical, next to a node
\* that a Bottleneck of severity 0 and an IsolatedComponent leave medium
C16_Witness ==
    /\ Exported
    /\ IsSome(result.config)
    /\ \E n, m \in DOMAIN nodes :
           /\ Cardinality(NamedSeverities(nodes[n].id)) >= 2
           /\ <<1, 1>> \in NamedSeverities(nodes[n].id)
           /\ NodeLine(n).fillcolor = "#ff4444"
           /\ NamedSeverities(nodes[m].id) = {<<0, 1>>, <<3, 10>>}
           /\ NodeLine(m).fillcolor = "#ffcc44"

\* the patterns that name the node id
PatternsNaming(id) ==
    {n \in DOMAIN result.patterns :
        \/ result.patterns[n].kind = "Cycle"
           /\ \E k \in DOMAIN result.patterns[n].nodes : result.patterns[n].nodes[k] = id
        \/ result.patterns[n].kind # "Cycle" /\ result.patterns[n].node_id = id}

ReportedIsolated(id) ==
    \E n \in PatternsNaming(id) : result.patterns[n].kind = "IsolatedComponent"

\* C17: with isolated detection enabled, a node reported as IsolatedComponent
\* and by no other pattern has the low-severity gray fill and a dashed
\* outline; and with thresholds of at least 1 no node that is not reported
\* isolated is dashed.
C17_IsolatedGrayDashed ==
    (Exported /\ IsSome(result.config)) =>
        LET config == Unwrap(result.config)
        IN  /\ config.detect_isolated =>
                   \A n \in DOMAIN nodes :
                       (\A p \in PatternsNaming(nodes[n].id) :
                            result.patterns[p].kind = "IsolatedComponent")
                       /\ ReportedIsolated(nodes[n].id)
                           => /\ NodeLine(n).fillcolor = "#cccccc"
                              /\ NodeLine(n).style = "filled,dashed"
            /\ (config.bottleneck_threshold >= 1 /\ config.over_coupling_threshold >= 1) =>
                   \A n \in DOMAIN nodes :
                       ~ReportedIsolated(nodes[n].id) => NodeLine(n).style = "filled"

-----------------------------------------------------------------------------
(* Claims about the complete workflow (SpecWorkflow) *)

\* one edge of weight 1.0 per relationship line, in textual order
RelationshipEdges(input) ==
    LET ends == RelationshipEnds(input)
    IN  [n \in DOMAIN ends |-> OptaEdge_new(ends[n][1], ends[n][2], 1)]

\* some edge names an id that no node has
HasDanglingEdge ==
    \E e \in DOMAIN edges : edges[e].from \notin DeclaredIds \/ edges[e].to \notin DeclaredIds

\* the calls that follow the parse on a model with at least one node and a
\* dangling edge: build_adjacency_matrix stores a matrix; optimize_layout with
\* the matrix built returns no Err (its one failure is the empty random range
\* of a zero area) and returns Ok once its loop is over; detect_anti_patterns
\* returns Ok
DanglingEdgesHarmless ==
    (Len(nodes) >= 1 /\ HasDanglingEdge) =>
        /\ last_mutator' = "build_adjacency_matrix" => IsSome(adjacency_matrix')
        /\ (OptimizeCalled /\ IsSome(adjacency_matrix)) =>
               \/ result'.status = "running"
               \/ result'.status = "panic" /\ result'.error = "cannot sample empty range"
        /\ (pc = "iterating" /\ pc' = "idle") => result' = Unit("optimize_layout")
        /\ result'.call = "detect_anti_patterns" => result'.status = "ok"

\* C13: parse_c4_dsl turns every relationship line into exactly one edge with
\* the ids of the line and weight 1.0, whether the ids are declared or not;
\* and build_adjacency_matrix, optimize_layout and detect_anti_patterns on a
\* model with at least one node do not fail because of dangling edges.
C13_RelationshipLinesBecomeEdges ==
    [][/\ result'.call = "parse_c4_dsl" => edges' = RelationshipEdges(result'.input)
       /\ DanglingEdgesHarmless]_vars

\* optimize_layout returns Ok in this step
OptimizeSucceeds == pc = "iterating" /\ pc' = "idle" /\ result' = Unit("optimize_layout")

HasPosition(node) == IsSome(node.position)

\* C14: no step other than the successful return of optimize_layout gives a
\* node a position or takes one away, and a node that enters the model (by
\* parse_c4_dsl or add_node) has none; the successful return of
\* optimize_layout gives a position to every node of the model.  So every
\* position is absent until the first successful optimize_layout, and a node
\* added later stays without position until the next one.
C14_PositionsOnlyFromOptimize ==
    [][IF OptimizeSucceeds
       THEN /\ Len(nodes') = Len(nodes)
            /\ \A n \in DOMAIN nodes' : HasPosition(nodes'[n])
       ELSE /\ Len(nodes') >= Len(nodes)
            /\ \A n \in DOMAIN nodes' :
                   IF n \in DOMAIN nodes
                   THEN nodes'[n].position = nodes[n].position
                   ELSE ~HasPosition(nodes'[n])]_vars

\* the model holds a node laid out by optimize_layout and a node added after it
C14_Witness ==
    /\ Len(nodes) = 2
    /\ HasPosition(nodes[1])
    /\ ~HasPosition(nodes[2])
    /\ result.call = "to_dot"

-----------------------------------------------------------------------------
(* Claims about the configuration of the JNI bridge (SpecConfig) *)

\* detectAntiPatterns is the most recent call, made with a payload object
JniDetectedWith ==
    /\ result.call = "detectAntiPatterns"
    /\ IsSome(Unwrap(result.input))

Payload == Unwrap(Unwrap(result.input))

\* the field is given with a value below 1
BelowOne(field) == IsSome(field) /\ Unwrap(field)[1] < Unwrap(field)[2]

\* C18: a payload that gives bottleneck_threshold or over_coupling_threshold
\* a value below 1 is rejected with an invalid-configuration failure and no
\* detection runs (no configuration is used, no pattern is returned).
C18_BelowOneRejected ==
    (/\ JniDetectedWith
     /\ BelowOne(Payload.bottleneck_threshold) \/ BelowOne(Payload.over_coupling_threshold)) =>
            /\ result.status = "err"
            /\ result.error \in {"Invalid bottleneck_threshold", "Invalid over_coupling_threshold"}
            /\ result.config = None
            /\ result.patterns = <<>>

\* C19: when the payload omits a threshold and detection runs, it runs with
\* the documented default for the omitted field: 5 for bottleneck_threshold,
\* 7 for over_coupling_threshold, the values of AntiPatternConfig::default().
C19_OmittedFieldsTakeDefaults ==
    (JniDetectedWith /\ result.status = "ok") =>
        /\ ~IsSome(Payload.bottleneck_threshold) =>
               /\ Unwrap(result.config).bottleneck_threshold = 5
               /\ Unwrap(result.config).bottleneck_threshold =
                      AntiPatternConfig_default.bottleneck_threshold
        /\ ~IsSome(Payload.over_coupling_threshold) =>
               /\ Unwrap(result.config).over_coupling_threshold = 7
               /\ Unwrap(result.config).over_coupling_threshold =
                      AntiPatternConfig_default.over_coupling_threshold

-----------------------------------------------------------------------------
(* Claims about the cooling schedule (SpecLayout) *)

\* the step is pass number `iteration` of the loop of optimize_layout
LoopPass == pc = "iterating" /\ iteration' = iteration + 1

\* equality of two quotients num/den
SameQuotient(x, y) == x[1] * y[2] = y[1] * x[2]

\* x - y as a quotient
Minus(x, y) == <<x[1] * y[2] - y[1] * x[2], x[2] * y[2]>>

\* eta / N
CoolingStep(self) == <<self.learning_rate[1], self.learning_rate[2] * self.iterations>>

\* the temperature of pass t is eta * (1 - t/N), and it is eta/N below the
\* temperature of the pass before
LinearCooling ==
    LoopPass =>
        LET self == Unwrap(optimizer)
            eta == self.learning_rate
            N == self.iterations
            t == iteration
        IN  /\ SameQuotient(Unwrap(temperature'), <<eta[1] * (N - t), eta[2] * N>>)
            /\ IsSome(temperature) =>
                   SameQuotient(Minus(Unwrap(temperature), Unwrap(temperature')),
                                CoolingStep(self))

\* the step is the last pass of the loop, t = N - 1
LastPass == LoopPass /\ iteration' = Unwrap(optimizer).iterations

\* C20 as stated: the temperature of pass t (t = 0 .. N-1) is eta * (1 - t/N),
\* it decreases by eta/N per pass, and it is zero at the last pass executed.
C20_CoolsToZeroAtLastPass ==
    [][/\ LinearCooling
       /\ LastPass => SameQuotient(Unwrap(temperature'), <<0, 1>>)]_vars

\* C20, amended: the temperature of pass t (t = 0 .. N-1) is eta * (1 - t/N),
\* it decreases by eta/N per pass, and at the last pass executed (t = N-1) it
\* is eta/N, which is above zero; zero would be the value at t = N, a pass
\* the loop never makes.
C20_CoolsToStepAtLastPass ==
    [][/\ LinearCooling
       /\ LastPass =>
              /\ SameQuotient(Unwrap(temperature'), CoolingStep(Unwrap(optimizer)))
              /\ Less(<<0, 1>>, Unwrap(temperature'))]_vars

\* both passes of a two-pass run are made: the last temperature is eta/2
C20_Witness ==
    /\ pc = "iterating"
    /\ Unwrap(optimizer).iterations = 2
    /\ iteration = 2
    /\ IsSome(temperature)
    /\ SameQuotient(Unwrap(temperature), CoolingStep(Unwrap(optimizer)))
    /\ Less(<<0, 1>>, Unwrap(temperature))

-----------------------------------------------------------------------------
(* Claims about the force computation (SpecLayout) *)

\* cell [i][j] of the cached matrix
Cell(i, j) == Unwrap(adjacency_matrix)[i][j]

\* the repulsive displacement node j gives to node i: (d / distance) * k^2 / distance^2
Repulsion(i, j) ==
    LET k == Unwrap(optimizer).k
        dx == positions[i][1] - positions[j][1]
        dy == positions[i][2] - positions[j][2]
        distance_sq == dx * dx + dy * dy + Softening
        distance == Sqrt(distance_sq)
    IN  <<Trunc(10 * dx * k * k, distance * distance_sq),
          Trunc(10 * dy * k * k, distance * distance_sq)>>

\* the attractive displacement of node i toward node j for an edge of weight
\* w: (d / distance) * distance^2 / k * w, subtracted from the force on i
Attraction(i, j, w) ==
    LET k == Unwrap(optimizer).k
        dx == positions[i][1] - positions[j][1]
        dy == positions[i][2] - positions[j][2]
        distance == Sqrt(dx * dx + dy * dy + Softening)
    IN  <<Trunc(dx * distance * distance * w, distance * k),
          Trunc(dy * distance * distance * w, distance * k)>>

\* what the ordered pair (i, j) adds to the force on i
PairContribution(i, j) ==
    IF Cell(i, j) > 0
    THEN <<Repulsion(i, j)[1] - Attraction(i, j, Cell(i, j))[1],
           Repulsion(i, j)[2] - Attraction(i, j, Cell(i, j))[2]>>
    ELSE Repulsion(i, j)

RECURSIVE ContributionsFrom(_, _)
\* the sum of the contributions of the pairs (i, j), (i, j + 1), ... with i # j
ContributionsFrom(i, j) ==
    IF j > Len(positions) THEN <<0, 0>>
    ELSE LET rest == ContributionsFrom(i, j + 1)
         IN  IF i = j THEN rest
             ELSE <<PairContribution(i, j)[1] + rest[1], PairContribution(i, j)[2] + rest[2]>>

\* C21: in each force computation every ordered pair of distinct nodes (i, j)
\* adds the repulsion of j to the force on i, and the attraction of i toward
\* j is added exactly when cell [i][j] of the matrix is positive: the cell
\* [j][i] plays no part in the force on i, and a cell <= 0 adds no
\* attraction.  The pass of the loop moves the positions by this force.
C21_AttractionIffCellPositive ==
    [][LoopPass =>
           LET self == Unwrap(optimizer)
               force == compute_forces(self, positions, Unwrap(adjacency_matrix))
           IN  /\ force = [i \in DOMAIN positions |-> ContributionsFrom(i, 1)]
               /\ \A i, j \in DOMAIN positions :
                      (i # j /\ Cell(i, j) <= 0) =>
                          PairForce(self, positions, Unwrap(adjacency_matrix), i, j)
                              = Repulsion(i, j)
               /\ positions' =
                      clamp_positions(self,
                          Displace(positions, [i \in DOMAIN positions |-> ContributionsFrom(i, 1)],
                                   Unwrap(temperature')))]_vars

\* a pass was made on two nodes at different places joined by the one edge
\* 1 -> 2: node 1 is attracted (its force is not the bare repulsion), node 2
\* is only repelled
C21_Witness ==
    /\ pc = "iterating"
    /\ iteration >= 1
    /\ Len(positions) = 2
    /\ positions[1] # positions[2]
    /\ Cell(1, 2) > 0
    /\ Cell(2, 1) = 0
    /\ compute_forces(Unwrap(optimizer), positions, Unwrap(adjacency_matrix))[1] # Repulsion(1, 2)
    /\ compute_forces(Unwrap(optimizer), positions, Unwrap(adjacency_matrix))[2] = Repulsion(2, 1)

-----------------------------------------------------------------------------
(* Claims about the read-only operations (SpecWorkflow) *)

\* the step is a call of one of the read-only operations
ReadOnlyCall ==
    /\ pc = "idle"
    /\ result'.call \in {"detect_anti_patterns", "to_dot", "to_dot_with_positions"}

\* the adjacency list of the node ids and the edge list alone: a key per
\* declared id and per edge source, holding the targets in edge order
FreshAdjacency(ids, es) ==
    [id \in ids \cup {es[e].from : e \in DOMAIN es} |->
        LET out == SelectSeq(es, LAMBDA edge : edge.from = id)
        IN  [n \in DOMAIN out |-> out[n].to]]

\* the nodes without their positions
IdsOnly(ns) == [n \in DOMAIN ns |-> OptaNode_new(ns[n].id)]

\* the patterns as a function of the node ids, the edge list and the
\* configuration and of nothing else
PatternsOf(ns, es, config) ==
    IF Len(ns) = 0 THEN <<>>
    ELSE LET adjacency == FreshAdjacency({ns[n].id : n \in DOMAIN ns}, es)
         IN  detect_cycles(IdsOnly(ns), adjacency)
             \o detect_bottlenecks(adjacency, config.bottleneck_threshold)
             \o detect_over_coupling(adjacency, config.over_coupling_threshold)
             \o (IF config.detect_isolated
                 THEN detect_isolated_components(IdsOnly(ns), adjacency)
                 ELSE <<>>)

\* C22: detect_anti_patterns, to_dot and to_dot_with_positions leave the
\* nodes (with their positions), the edges and the cached matrix as they
\* are, and the patterns detect_anti_patterns returns are those of the node
\* ids, the edge list and the configuration alone, whatever the cached
\* matrix and the positions are.
C22_ReadOnlyAndMatrixIndependent ==
    [][ReadOnlyCall =>
           /\ UNCHANGED <<nodes, edges, adjacency_matrix, last_mutator>>
           /\ result'.call = "detect_anti_patterns" =>
                  result'.patterns = PatternsOf(nodes, edges, Unwrap(result'.config))]_vars

\* detection ran on a laid-out model whose matrix is cached and whose edge
\* list holds an edge the matrix does not show (its source is no node)
C22_Witness ==
    /\ result.call = "detect_anti_patterns"
    /\ result.patterns # <<>>
    /\ IsSome(adjacency_matrix)
    /\ HasDanglingEdge
    /\ \E n \in DOMAIN nodes : HasPosition(nodes[n])

-----------------------------------------------------------------------------
(* Claims about the reported patterns (SpecDetect) *)

\* the model has an edge from -> to
HasEdge(from, to) == \E e \in DOMAIN edges : edges[e].from = from /\ edges[e].to = to

\* the list names a directed cycle of the model: no id twice, an edge from
\* each listed node to the next and from the last back to the first
IsDirectedCycle(cycle) ==
    /\ Len(cycle) >= 1
    /\ \A k, l \in DOMAIN cycle : cycle[k] = cycle[l] => k = l
    /\ \A k \in 1..(Len(cycle) - 1) : HasEdge(cycle[k], cycle[k + 1])
    /\ HasEdge(cycle[Len(cycle)], cycle[1])

\* C23: every Cycle pattern detect_anti_patterns returns is a directed cycle
\* of the model (no repeated id, an edge between consecutive nodes and from
\* the last node back to the first; [x] needs the self-loop x -> x), also
\* for the roots tried after an earlier cycle was found.
C23_CyclesAreGenuine ==
    Detected => \A n \in PatternsOfKind("Cycle") : IsDirectedCycle(result.patterns[n].nodes)

-----------------------------------------------------------------------------
(* Claims about duplicate node ids (Spec) *)

\* the place of the node find_node(id) returns: the first one with that id
FoundIndex(id) == CHOOSE i \in DOMAIN nodes : nodes[i].id = id /\ \A j \in 1..(i - 1) : nodes[j].id # id

\* the edges whose endpoints name the same ids as edge e
SameEnds(e) == {d \in DOMAIN edges : edges[d].from = edges[e].from /\ edges[d].to = edges[e].to}

\* C24: also when several nodes share an id, build_adjacency_matrix puts the
\* weight of an edge (the last one between its two ids) in the row of the
\* node find_node returns for its source id and the column of the node
\* find_node returns for its target id, that is the first inserted node of
\* each id.
C24_EdgeGoesToFoundNode ==
    IsSome(adjacency_matrix) =>
        \A e \in DOMAIN edges :
            (IsSome(find_node(edges[e].from)) /\ IsSome(find_node(edges[e].to))) =>
                Unwrap(adjacency_matrix)[FoundIndex(edges[e].from)][FoundIndex(edges[e].to)]
                    = edges[SetMax(SameEnds(e))].weight

\* the node ids a pattern names
NamedIds(pattern) ==
    IF pattern.kind = "Cycle" THEN {pattern.nodes[k] : k \in DOMAIN pattern.nodes}
    ELSE {pattern.node_id}

\* C25: every node id named in a Cycle, Bottleneck, OverCoupling or
\* IsolatedComponent pattern of a detection result is the id of a node of the
\* model, also when edges name ids that no node has.
C25_NamedIdsAreDeclared ==
    Detected => \A n \in DOMAIN result.patterns : NamedIds(result.patterns[n]) \subseteq DeclaredIds

-----------------------------------------------------------------------------
(* Claims about the cached matrix during optimize_layout (SpecLayout) *)

\* the matrix is n x n
SquareOfSide(m, n) == Len(m) = n /\ \A i \in DOMAIN m : Len(m[i]) = n

\* the places of the flattened matrix that the force computation reads
LookupsInside ==
    \A i, j \in DOMAIN positions :
        (i - 1) * Len(positions) + j \in
            1..(Len(Unwrap(adjacency_matrix)) * Len(Unwrap(adjacency_matrix)))

\* C26: a cached matrix is never stale: when there is one it is square with
\* side equal to the current node count, so whenever optimize_layout has
\* passed its two checks every lookup [i][j] of the force computation is
\* inside the matrix.
C26_MatrixNeverStale ==
    /\ IsSome(adjacency_matrix) =>
           node_count >= 1 /\ SquareOfSide(Unwrap(adjacency_matrix), node_count)
    /\ pc = "iterating" =>
           /\ IsSome(adjacency_matrix)
           /\ Len(positions) = node_count
           /\ LookupsInside

\* optimize_layout is in its loop on a two-node model whose second node was
\* added after an earlier successful optimize_layout (and the matrix rebuilt)
C26_Witness ==
    /\ pc = "iterating"
    /\ iteration >= 1
    /\ node_count = 2
    /\ HasPosition(nodes[1])
    /\ ~HasPosition(nodes[2])
    /\ SquareOfSide(Unwrap(adjacency_matrix), 2)

-----------------------------------------------------------------------------
(* Claims about the frame of optimize_layout (SpecLayout) *)

\* the ids of the nodes, in order
IdsInOrder(ns) == [n \in DOMAIN ns |-> ns[n].id]

\* the step belongs to a call of optimize_layout: its entry, a pass of its
\* loop, or its return
OptimizeStep == OptimizeCalled \/ pc = "iterating"

\* optimize_layout has just returned Ok and nothing was called since
JustOptimized == pc = "idle" /\ result = Unit("optimize_layout")

\* the optimizers that are able to succeed on some model: random_range has a
\* value to return for their area
AbleOptimizers == {self \in Optimizers : RandomRange(self) # {}}

\* C27: a call of optimize_layout changes nothing but positions, and those
\* only when it returns Ok: the number, the order and the ids of the nodes,
\* the edge list and the cached matrix are the same before and after.  So
\* right after a successful call both checks of optimize_layout pass again
\* with no build_adjacency_matrix in between: a second call never returns
\* Err, and with every optimizer able to succeed it enters its loop.
C27_OptimizeChangesOnlyPositions ==
    [][/\ OptimizeStep =>
              /\ IdsInOrder(nodes') = IdsInOrder(nodes)
              /\ edges' = edges
              /\ adjacency_matrix' = adjacency_matrix
              /\ last_mutator' = last_mutator
              /\ OptimizeSucceeds \/ nodes' = nodes
       /\ JustOptimized =>
              /\ last_mutator = "build_adjacency_matrix"
              /\ \A self \in AbleOptimizers : Precheck(self) = "run"
              /\ OptimizeCalled => result'.status # "err"
      ]_vars

\* a second optimize_layout is in its loop on a model that an earlier one has
\* laid out completely
C27_Witness ==
    /\ pc = "iterating"
    /\ iteration >= 1
    /\ node_count = 2
    /\ nodes[1].id # nodes[2].id
    /\ Len(edges) >= 1
    /\ \A n \in DOMAIN nodes : HasPosition(nodes[n])

-----------------------------------------------------------------------------
(* Claims about the termination of detect_anti_patterns (SpecTraversal) *)

\* a detect_anti_patterns call is in progress
Detecting == pc = "detecting"

NoRepeat(q) == \A i, j \in DOMAIN q : q[i] = q[j] => i = j

RECURSIVE SumOver(_, _)
SumOver(f, S) ==
    IF S = {} THEN 0
    ELSE LET x == CHOOSE x \in S : TRUE IN f[x] + SumOver(f, S \ {x})

\* the turns the neighbor loops of the dfs_visit frames still have to make,
\* loop exits included
TurnsLeft(traversal) ==
    LET adjacency == build_adjacency_map(nodes, edges)
        left == [n \in DOMAIN traversal.stack |->
                    Len(adjacency[traversal.stack[n].node_id]) + 2 - traversal.stack[n].next]
    IN  SumOver(left, DOMAIN left)

\* the tests the while loop of reconstruct_cycle can still make: one per
\* node id it has not pushed; before the walk of a frame starts, one more
\* than any walk has
WalkLeft(traversal) ==
    IF traversal.stack = <<>> THEN 0
    ELSE IF IsSome(traversal.walk)
    THEN Cardinality(DeclaredIds) + 1 - Len(Unwrap(traversal.walk).cycle)
    ELSE Cardinality(DeclaredIds) + 2

\* a bound on the steps a call in progress can still make: every White id
\* can be entered once, which opens one neighbor loop and at most one walk
StepsLeft(traversal) ==
    Cardinality({id \in DOMAIN traversal.color : traversal.color[id] = "White"})
        * (Len(edges) + Cardinality(DeclaredIds) + 4)
    + (Len(nodes) + 1 - traversal.root)
    + TurnsLeft(traversal)
    + WalkLeft(traversal)

\* the guard of one of the steps of a call in progress holds: of the root
\* loop or the return of detect_cycles, of the neighbor loop, of the walk
CanStep ==
    \/ dfs.stack = <<>> /\ dfs.walk = None /\ dfs.root \in 1..(Len(nodes) + 1)
    \/ dfs.stack # <<>> /\ dfs.walk = None /\ dfs.root \in 1..Len(nodes)
    \/ dfs.stack # <<>> /\ IsSome(dfs.walk) /\ dfs.root \in 1..Len(nodes)

\* C28: detect_anti_patterns terminates on every finite model, with cycles,
\* self-loops, parallel edges, duplicate node ids and dangling edges: the
\* depth-first search enters every node id at most once, the parent-link
\* walk of reconstruct_cycle pushes no id twice and so reaches the cycle
\* start or a node without parent; a call in progress can always take a
\* step, every step lowers a natural number, and the step that ends the call
\* returns the patterns of detect_anti_patterns.
C28_DetectionTerminates ==
    [][/\ Detecting =>
              /\ \A id \in DOMAIN dfs.entered : dfs.entered[id] <= 1
              /\ IsSome(dfs.walk) => NoRepeat(Unwrap(dfs.walk).cycle)
              /\ StepsLeft(dfs) \in Nat
              /\ CanStep
       /\ (Detecting /\ Detecting') => StepsLeft(dfs') < StepsLeft(dfs)
       /\ (Detecting /\ ~Detecting') =>
              /\ result'.call = "detect_anti_patterns"
              /\ result'.status = "ok"
              /\ result'.patterns = DetectedPatterns(nodes, edges, Unwrap(result'.config))
      ]_vars

\* reconstruct_cycle has walked a parent link on a model with a duplicate
\* node id, a dangling edge and a directed cycle
C28_Witness ==
    /\ Detecting
    /\ IsSome(dfs.walk)
    /\ Len(Unwrap(dfs.walk).cycle) >= 2
    /\ \E i, j \in DOMAIN nodes : i # j /\ nodes[i].id = nodes[j].id
    /\ \E e \in DOMAIN edges : edges[e].to \notin DeclaredIds
    /\ HasDirectedCycle

-----------------------------------------------------------------------------
(* Claims about the patterns of one result (SpecDetect) *)

\* C29: with thresholds of at least 1, an id reported as IsolatedComponent
\* is named by no Cycle, Bottleneck or OverCoupling pattern of the same
\* result.
C29_IsolatedNamedByNothingElse ==
    (Detected /\ Config.bottleneck_threshold >= 1 /\ Config.over_coupling_threshold >= 1) =>
        \A n \in PatternsOfKind("IsolatedComponent") :
            \A p \in PatternsNaming(result.patterns[n].node_id) :
                result.patterns[p].kind = "IsolatedComponent"

\* one result holds an IsolatedComponent next to a Cycle, a Bottleneck and
\* an OverCoupling
C29_Witness ==
    /\ Detected
    /\ \A kind \in {"IsolatedComponent", "Cycle", "Bottleneck", "OverCoupling"} :
           PatternsOfKind(kind) # {}


\* the patterns of the kind name pairwise different node ids
DistinctNodeIds(kind) ==
    \A n, m \in PatternsOfKind(kind) :
        result.patterns[n].node_id = result.patterns[m].node_id => n = m

\* C30: within one result no two Bottleneck patterns name the same node id,
\* no two OverCoupling patterns do, and no two IsolatedComponent patterns
\* do, whatever the model, duplicate node ids included.
C30_OnePatternPerKindAndId ==
    Detected =>
        /\ DistinctNodeIds("Bottleneck")
        /\ DistinctNodeIds("OverCoupling")
        /\ DistinctNodeIds("IsolatedComponent")

=============================================================================
